---- MODULE Spec2Model ----
(***************************************************************************)
(* Referential-cascade deletion planner of sql-tools (data_cleanup).       *)
(*                                                                         *)
(* The module models                                                       *)
(*   - ProcessingQueue / CascadeTask   (data_cleanup_types.py)             *)
(*   - calculate_operations and its lookups (data_cleanup_utils.py)        *)
(*   - Hierarchy.rebuild_table_levels / get_deletion_order and             *)
(*     preload_all_foreign_keys        (db_util_types.py, *_utils.py)      *)
(*                                                                         *)
(* Encoding of key values: a primary-key value is the tuple of the values  *)
(* of the key columns.  Python keeps the value of a one-column key as a    *)
(* scalar v and of an N-column key as a tuple; the scalar v is written     *)
(* <<v>> here (the code never produces a 1-tuple, so the encoding is       *)
(* injective).  SQL NULL / Python None is the value NULL.                  *)
(***************************************************************************)
EXTENDS Integers, Sequences, FiniteSets, TLC

\* ------------------------------------------------------------------ bounds
\* rows per table
MaxRows == 2
\* number of child rows that hold a non-NULL foreign key, per database
MaxRefs == 2
\* cap of the iteration counter on the paths of the loop that the code
\* leaves unbounded
IterCap == 1002
\* number of queue operations in a run of the queue alone
MaxCalls == 3
\* largest level passed to add_task in a run of the queue alone
MaxLevel == 1
\* number of foreign-key constraints in a generated catalogue
MaxFks == 3
\* characters of a string key value, and the largest numeric key value
MaxLen == 2
MaxNum == 11

\* ------------------------------------------------------- program constants
\* "if iteration > 1000" in calculate_operations
MAX_LOOP_ITERATIONS == 1000
\* "max_iterations = 10" in Hierarchy.rebuild_table_levels
max_iterations == 10

NULL == 0
PENDING == "pending"
PROCESSING == "processing"
COMPLETED == "completed"

Max(a, b) == IF a >= b THEN a ELSE b
Min(a, b) == IF a <= b THEN a ELSE b

\* list(s) of a Python set: some fixed order of the elements
RECURSIVE ListOf(_)
ListOf(S) ==
    IF S = {} THEN <<>>
    ELSE LET x == CHOOSE y \in S : TRUE IN <<x>> \o ListOf(S \ {x})

Range(s) == {s[i] : i \in DOMAIN s}

\* ------------------------------------------------------------ the schemas
Rel(n, pt, pc_, rt, rc) ==
    [name |-> n, parent_table |-> pt, parent_columns |-> pc_,
     referenced_table |-> rt, referenced_columns |-> rc]

\* A schema: the root table, the primary-key columns of every table (<<>>
\* when the table has no primary key) and the foreign keys between the
\* tables, in the order of hierarchy.relationships.
Schemas ==
    << \* 1: a root without dependents
       [root |-> "R", pk |-> [R |-> <<"id">>], rels |-> <<>>],
       \* 2: linear chain  B -> A -> R
       [root |-> "R", pk |-> [R |-> <<"id">>, A |-> <<"id">>, B |-> <<"id">>],
        rels |-> << Rel("FK_A_R", "A", <<"r_id">>, "R", <<"id">>),
                    Rel("FK_B_A", "B", <<"a_id">>, "A", <<"id">>) >>],
       \* 3: self-referencing root, the self reference last
       [root |-> "R", pk |-> [R |-> <<"id">>, A |-> <<"id">>],
        rels |-> << Rel("FK_A_R", "A", <<"r_id">>, "R", <<"id">>),
                    Rel("FK_R_R", "R", <<"parent_id">>, "R", <<"id">>) >>],
       \* 4: self-referencing root, the self reference first
       [root |-> "R", pk |-> [R |-> <<"id">>, A |-> <<"id">>],
        rels |-> << Rel("FK_R_R", "R", <<"parent_id">>, "R", <<"id">>),
                    Rel("FK_A_R", "A", <<"r_id">>, "R", <<"id">>) >>],
       \* 5: cycle  A -> R -> A
       [root |-> "R", pk |-> [R |-> <<"id">>, A |-> <<"id">>],
        rels |-> << Rel("FK_A_R", "A", <<"r_id">>, "R", <<"id">>),
                    Rel("FK_R_A", "R", <<"a_id">>, "A", <<"id">>) >>],
       \* 6: foreign key onto a unique key that is not the primary key
       [root |-> "R", pk |-> [R |-> <<"id">>, A |-> <<"id">>],
        rels |-> << Rel("FK_A_R", "A", <<"r_uk">>, "R", <<"uk">>) >>],
       \* 7: root with a two-column primary key
       [root |-> "R", pk |-> [R |-> <<"k1", "k2">>, A |-> <<"id">>],
        rels |-> << Rel("FK_A_R", "A", <<"r_k1", "r_k2">>, "R", <<"k1", "k2">>) >>],
       \* 8: dependent with a two-column primary key
       [root |-> "R", pk |-> [R |-> <<"id">>, A |-> <<"k1", "k2">>, B |-> <<"id">>],
        rels |-> << Rel("FK_A_R", "A", <<"r_id">>, "R", <<"id">>),
                    Rel("FK_B_A", "B", <<"a_k1", "a_k2">>, "A", <<"k1", "k2">>) >>],
       \* 9: a dependent without primary key
       [root |-> "R", pk |-> [R |-> <<"id">>, A |-> <<>>, B |-> <<"id">>],
        rels |-> << Rel("FK_A_R", "A", <<"r_id">>, "R", <<"id">>),
                    Rel("FK_B_A", "B", <<"a_uk">>, "A", <<"uk">>) >> ],
       \* 10: diamond  C -> A -> R  and  C -> B -> R; row i of A and row i
       \* of B reference row i of R
       [root |-> "R",
        pk |-> [R |-> <<"id">>, A |-> <<"id">>, B |-> <<"id">>, C |-> <<"id">>],
        rels |-> << Rel("FK_A_R", "A", <<"r_id">>, "R", <<"id">>),
                    Rel("FK_B_R", "B", <<"r_id">>, "R", <<"id">>),
                    Rel("FK_C_A", "C", <<"a_id">>, "A", <<"id">>),
                    Rel("FK_C_B", "C", <<"b_id">>, "B", <<"id">>) >>,
        fixed |-> [s \in {1, 2} \X (1 .. MaxRows) |-> s[2]] ],
       \* 11: a root without primary key, referenced through a unique key
       [root |-> "R", pk |-> [R |-> <<>>, A |-> <<"id">>],
        rels |-> << Rel("FK_A_R", "A", <<"r_uk">>, "R", <<"uk">>) >>]
    >>

RowIds == 1 .. MaxRows

\* The databases of a schema: for every foreign key j and every row i of its
\* child table, the row of the referenced table that row i references (NULL
\* for none).
Slots(S) == (DOMAIN S.rels) \X RowIds
\* the slots whose value a schema fixes
FixedSlots(S) == IF "fixed" \in DOMAIN S THEN DOMAIN S.fixed ELSE {}
Databases(S) ==
    {[s \in Slots(S) |-> IF s \in FixedSlots(S) THEN S.fixed[s] ELSE f[s]] :
        f \in {g \in [Slots(S) \ FixedSlots(S) -> {NULL} \cup RowIds] :
                  Cardinality({s \in DOMAIN g : g[s] # NULL}) <= MaxRefs}}

\* value of column c in row i of table t
RECURSIVE ColValue(_, _, _, _, _)
ColValue(S, d, t, i, c) ==
    IF c = "id" THEN i
    ELSE IF c = "k1" THEN (i + 1) \div 2
    ELSE IF c = "k2" THEN i
    ELSE IF c = "uk" THEN i + MaxRows
    ELSE LET j == CHOOSE k \in DOMAIN S.rels :
                    /\ S.rels[k].parent_table = t
                    /\ c \in Range(S.rels[k].parent_columns)
             rel == S.rels[j]
             p == CHOOSE q \in DOMAIN rel.parent_columns : rel.parent_columns[q] = c
         IN IF d[<<j, i>>] = NULL THEN NULL
            ELSE ColValue(S, d, rel.referenced_table, d[<<j, i>>], rel.referenced_columns[p])

RowTuple(S, d, t, i, cols) == [p \in DOMAIN cols |-> ColValue(S, d, t, i, cols[p])]

\* ----------------------------------------------------- ProcessingQueue
\* A CascadeTask; the queue is the list ProcessingQueue.tasks.
CascadeTask(table_key, ids, level) ==
    [table_key |-> table_key, ids |-> ids, status |-> PENDING, level |-> level]

\* get_task: index of the first task with the key, 0 for None
get_task(q, table_key) ==
    IF \E i \in DOMAIN q : q[i].table_key = table_key
    THEN CHOOSE i \in DOMAIN q :
            /\ q[i].table_key = table_key
            /\ \A j \in 1 .. (i - 1) : q[j].table_key # table_key
    ELSE 0

\* mutant of MergedIds: the IDs of the last call replace the ID set
MergedIds_Replace(old_ids, ids) == ids

\* add_task, lines 46-49: the merged ID set
MergedIds(old_ids, ids) == old_ids \cup ids

\* mutant of MergedLevel: the level of the last call replaces the level
MergedLevel_Overwrite(old_level, level) == level

\* add_task, line 49: the merged level
MergedLevel(old_level, level) == Max(old_level, level)

\* mutant of MergedStatus: a completed task is reset by every merge
MergedStatus_AlwaysReset(status, old_count, new_count) ==
    IF status = COMPLETED THEN PENDING ELSE status

\* add_task, lines 51-53: status of an existing task after the merge
MergedStatus(status, old_count, new_count) ==
    IF status = COMPLETED /\ new_count > old_count THEN PENDING ELSE status

add_task(q, table_key, ids, level) ==
    LET i == get_task(q, table_key) IN
    IF i # 0
    THEN LET merged == MergedIds(q[i].ids, ids) IN
         [q EXCEPT ![i] =
            [table_key |-> q[i].table_key,
             ids |-> merged,
             status |-> MergedStatus(q[i].status, Cardinality(q[i].ids),
                                     Cardinality(merged)),
             level |-> MergedLevel(q[i].level, level)]]
    ELSE Append(q, CascadeTask(table_key, ids, level))

\* mutant of InsertByLevel: an unstable sort, later tasks win ties
RECURSIVE InsertByLevel_Unstable(_, _, _)
InsertByLevel_Unstable(q, sorted, i) ==
    IF sorted = <<>> THEN <<i>>
    ELSE IF q[Head(sorted)].level < q[i].level
         THEN <<Head(sorted)>> \o InsertByLevel_Unstable(q, Tail(sorted), i)
         ELSE <<i>> \o sorted

\* pending_tasks.sort(key=lambda t: t.level): a stable sort of task indices
RECURSIVE InsertByLevel(_, _, _)
InsertByLevel(q, sorted, i) ==
    IF sorted = <<>> THEN <<i>>
    ELSE IF q[Head(sorted)].level <= q[i].level
         THEN <<Head(sorted)>> \o InsertByLevel(q, Tail(sorted), i)
         ELSE <<i>> \o sorted

RECURSIVE SortByLevel(_, _)
SortByLevel(q, idxs) ==
    IF idxs = <<>> THEN <<>>
    ELSE InsertByLevel(q, SortByLevel(q, SubSeq(idxs, 1, Len(idxs) - 1)),
                       idxs[Len(idxs)])

\* indices of the PENDING tasks, in queue order
RECURSIVE PendingTasks(_, _)
PendingTasks(q, n) ==
    IF n = 0 THEN <<>>
    ELSE IF q[n].status = PENDING
         THEN Append(PendingTasks(q, n - 1), n)
         ELSE PendingTasks(q, n - 1)

\* mutant of get_next_task: the deepest PENDING task is returned
get_next_task_Deepest(q) ==
    LET pending_tasks == PendingTasks(q, Len(q)) IN
    IF pending_tasks = <<>> THEN 0
    ELSE SortByLevel(q, pending_tasks)[Len(pending_tasks)]

\* get_next_task: index of the returned task, 0 for None
get_next_task(q) ==
    LET pending_tasks == PendingTasks(q, Len(q)) IN
    IF pending_tasks = <<>> THEN 0
    ELSE SortByLevel(q, pending_tasks)[1]

has_pending_tasks(q) == \E i \in DOMAIN q : q[i].status = PENDING

\* mutant of mark_processing: the status is left as it is
mark_processing_Skip(q, table_key) == q

\* mark_processing: the task list afterwards
mark_processing(q, table_key) ==
    LET i == get_task(q, table_key) IN
    IF i # 0 THEN [q EXCEPT ![i].status = PROCESSING] ELSE q

\* mark_completed: the task list afterwards
mark_completed(q, table_key) ==
    LET i == get_task(q, table_key) IN
    IF i # 0 THEN [q EXCEPT ![i].status = COMPLETED] ELSE q

\* mark_completed: completed_tables afterwards
mark_completed_tables(q, completed, table_key) ==
    IF get_task(q, table_key) # 0 THEN completed \cup {table_key} ELSE completed

\* get_all_operations: table key -> ids of the CleanupOperation
get_all_operations(q) ==
    LET keys == {q[i].table_key : i \in {j \in DOMAIN q : q[j].ids # {}}} IN
    [k \in keys |-> q[get_task(q, k)].ids]

\* RelationshipMap.from_hierarchy + get_child_relationships
get_child_relationships(rels, parent_table_key) ==
    SelectSeq(rels, LAMBDA r : r.referenced_table = parent_table_key)

\* ------------------------------------------------------------- the state
VARIABLES
    catalog,            \* the foreign-key constraints of the database catalogue
    schema,             \* index of the schema of the database in Schemas
    data,               \* the rows of the database, an element of Databases
    config,             \* CleanupConfig: batch_threshold, batch_size
    root_ids,           \* the value of fetch_ids
    relationships,      \* hierarchy.relationships
    table_levels,       \* hierarchy.table_levels
    deletion_order,     \* result of hierarchy.get_deletion_order()
    tasks,              \* queue.tasks
    completed_tables,   \* queue.completed_tables
    iteration,          \* local "iteration" of calculate_operations
    pc,                 \* position in the modelled function
    cur,                \* table_key of the local "task" of the loop body
    relIdx,             \* position of the for loop over child_relationships
    operations,         \* value returned by calculate_operations
    failed,             \* history: some lookup query raised
    log,                \* history: the add_task calls made, <<key, ids, level>>
    dequeued,           \* history: table_key -> the ID sets at its dequeues
    ncalls,             \* history: number of queue calls made
    ret,                \* value returned by the last call (get_next_task in the planner)
    lastOp              \* history: name of the last queue call

vars == <<catalog, schema, data, config, root_ids, relationships, table_levels,
          deletion_order, tasks, completed_tables, iteration, pc, cur, relIdx,
          operations, failed, log, dequeued, ncalls, ret, lastOp>>

CurSchema == Schemas[schema]
Tables(S) == DOMAIN S.pk

\* ------------------------------------------------------------ the lookups
\* one condition of a multi-column clause: "[col] IS NULL" or "[col] = val"
Condition(colval, val) == IF val = NULL THEN colval = NULL ELSE colval = val

\* "(c1 = v1 AND c2 = v2 ...)": conditions on the first min(len) columns
ClauseMatches(t, i, cols, tuple) ==
    \A p \in 1 .. Min(Len(cols), Len(tuple)) :
        Condition(ColValue(CurSchema, data, t, i, cols[p]), tuple[p])

\* "if conditions:" - the tuple yields at least one condition
HasConditions(cols, tuple) == Min(Len(cols), Len(tuple)) >= 1

\* SQL "[col] IN (v1, v2, ...)": a NULL on either side never matches
InList(colval, values) == colval # NULL /\ colval \in (values \ {NULL})

\* _build_pk_where_clause: row i of table t satisfies the generated clause
build_pk_where_clause(t, i, pk_columns, pk_values) ==
    IF Len(pk_columns) = 1
    THEN InList(ColValue(CurSchema, data, t, i, pk_columns[1]),
                {v[1] : v \in pk_values})
    ELSE \E v \in pk_values :
            HasConditions(pk_columns, v) /\ ClauseMatches(t, i, pk_columns, v)

\* build_fk_where_clause: row i of table t satisfies the generated clause
build_fk_where_clause(t, i, foreign_key_columns, referenced_values) ==
    IF Len(foreign_key_columns) = 1
    THEN InList(ColValue(CurSchema, data, t, i, foreign_key_columns[1]),
                {v[1] : v \in referenced_values})
    ELSE \E v \in referenced_values :
            /\ HasConditions(foreign_key_columns, v)
            /\ ClauseMatches(t, i, foreign_key_columns, v)

\* build_fk_where_clause returned "1=0"
FkClauseIsFalse(foreign_key_columns, referenced_values) ==
    /\ Len(foreign_key_columns) # 1
    /\ \A v \in referenced_values : ~HasConditions(foreign_key_columns, v)

\* mutant of NumBatches: a last batch that is not full is dropped
NumBatches_Floor(n, batch_size) == n \div batch_size

\* number of batches, and the k-th batch of a list
NumBatches(n, batch_size) == (n + batch_size - 1) \div batch_size
Batch(list, k, batch_size) ==
    Range(SubSeq(list, (k - 1) * batch_size + 1, Min(k * batch_size, Len(list))))

\* _execute_referenced_values_query on "SELECT DISTINCT refcols FROM t WHERE
\* <pk clause>": the projected tuples, nothing when the query raises
execute_referenced_values_query(t, ids, referenced_columns, raises) ==
    IF raises THEN {}
    ELSE {RowTuple(CurSchema, data, t, i, referenced_columns) :
            i \in {r \in RowIds : build_pk_where_clause(t, r, CurSchema.pk[t], ids)}}

\* the batching decision of both lookups
UseBatching(n) == config.batch_threshold > 0 /\ n >= config.batch_threshold

\* number of queries get_referenced_column_values issues
RefQueries(t, ids) ==
    IF CurSchema.pk[t] = <<>> THEN 0
    ELSE IF UseBatching(Cardinality(ids))
         THEN NumBatches(Cardinality(ids), config.batch_size)
         ELSE 1

\* _process_referenced_values_in_batches; fail = the batches whose query raises
process_referenced_values_in_batches(t, ids, referenced_columns, fail) ==
    LET id_list == ListOf(ids) IN
    UNION {execute_referenced_values_query(
               t, Batch(id_list, k, config.batch_size), referenced_columns, k \in fail) :
           k \in 1 .. NumBatches(Len(id_list), config.batch_size)}

\* get_referenced_column_values; fail = the queries that raise
get_referenced_column_values(t, ids, referenced_columns, fail) ==
    IF CurSchema.pk[t] = <<>> THEN {}
    ELSE IF UseBatching(Cardinality(ids))
         THEN process_referenced_values_in_batches(t, ids, referenced_columns, fail)
         ELSE execute_referenced_values_query(t, ids, referenced_columns, 1 \in fail)

\* mutant of find_child_primary_keys_single_query: a raising query is not
\* caught as an empty result
find_child_primary_keys_single_query_Uncaught(t, foreign_key_columns, referenced_values, raises) ==
    IF CurSchema.pk[t] = <<>> THEN {}
    ELSE IF FkClauseIsFalse(foreign_key_columns, referenced_values) THEN {}
    ELSE {RowTuple(CurSchema, data, t, i, CurSchema.pk[t]) :
            i \in {r \in RowIds :
                      build_fk_where_clause(t, r, foreign_key_columns, referenced_values)}}

\* _find_child_primary_keys_single_query
find_child_primary_keys_single_query(t, foreign_key_columns, referenced_values, raises) ==
    IF CurSchema.pk[t] = <<>> THEN {}
    ELSE IF FkClauseIsFalse(foreign_key_columns, referenced_values) THEN {}
    ELSE IF raises THEN {}
    ELSE {RowTuple(CurSchema, data, t, i, CurSchema.pk[t]) :
            i \in {r \in RowIds :
                      build_fk_where_clause(t, r, foreign_key_columns, referenced_values)}}

\* number of queries find_child_primary_keys issues
ChildQueries(t, referenced_values) ==
    IF CurSchema.pk[t] = <<>> THEN 0
    ELSE IF UseBatching(Cardinality(referenced_values))
         THEN NumBatches(Cardinality(referenced_values), config.batch_size)
         ELSE 1

\* _process_child_records_in_batches
process_child_records_in_batches(t, foreign_key_columns, referenced_values, fail) ==
    LET value_list == ListOf(referenced_values) IN
    UNION {find_child_primary_keys_single_query(
               t, foreign_key_columns, Batch(value_list, k, config.batch_size), k \in fail) :
           k \in 1 .. NumBatches(Len(value_list), config.batch_size)}

\* find_child_primary_keys
find_child_primary_keys(t, foreign_key_columns, referenced_values, fail) ==
    IF CurSchema.pk[t] = <<>> THEN {}
    ELSE IF UseBatching(Cardinality(referenced_values))
         THEN process_child_records_in_batches(t, foreign_key_columns, referenced_values, fail)
         ELSE find_child_primary_keys_single_query(
                  t, foreign_key_columns, referenced_values, 1 \in fail)

\* ------------------------------------------------- calculate_operations
\* CleanupConfig values: batching disabled, and batching from 2 values on
Configs == {[batch_threshold |-> 0, batch_size |-> 1],
            [batch_threshold |-> 2, batch_size |-> 1]}

\* fetch_ids: the first column of the rows the cleanup query selects
RootIdSets == {{<<v>> : v \in 1 .. k} : k \in 0 .. MaxRows}

NoReferences(S) == [s \in Slots(S) |-> NULL]

\* ret before the first get_next_task call: no task
NoTask == [table_key |-> "", ids |-> {}, level |-> 0]

\* the schemas whose root table has a primary key; the run of main over a
\* root without one is followed in SpecMain
PlanSchemas == {n \in DOMAIN Schemas : Schemas[n].pk[Schemas[n].root] # <<>>}

Init ==
    /\ catalog = <<>>
    /\ schema \in PlanSchemas
    /\ config \in Configs
    /\ root_ids \in RootIdSets
    \* with no root ID no query reads the database
    /\ data \in IF root_ids = {} THEN {NoReferences(Schemas[schema])}
                ELSE Databases(Schemas[schema])
    /\ relationships = Schemas[schema].rels
    /\ table_levels = <<>>
    /\ deletion_order = <<>>
    /\ tasks = <<>>
    /\ completed_tables = {}
    /\ iteration = 0
    /\ pc = "start"
    /\ cur = ""
    /\ relIdx = 0
    /\ operations = <<>>
    /\ failed = FALSE
    /\ log = {}
    /\ dequeued = <<>>
    /\ ncalls = 0
    /\ ret = NoTask
    /\ lastOp = ""

\* lines 37-50: the primary-key check and the seeding of the queue
Start ==
    /\ pc = "start"
    /\ IF CurSchema.pk[CurSchema.root] = <<>>
       THEN /\ pc' = "raised"
            /\ UNCHANGED <<tasks, log>>
       ELSE /\ tasks' = add_task(tasks, CurSchema.root, root_ids, 0)
            /\ log' = log \cup {<<CurSchema.root, root_ids, 0>>}
            /\ pc' = "loop"
    /\ UNCHANGED <<catalog, schema, data, config, root_ids, relationships, table_levels,
                   deletion_order, completed_tables, iteration, cur, relIdx,
                   operations, failed, dequeued, ncalls, ret, lastOp>>

\* line 51 false: the loop ends, lines 109-125 return the operations
LoopExit ==
    /\ pc = "loop"
    /\ ~has_pending_tasks(tasks)
    /\ pc' = "done"
    /\ operations' = get_all_operations(tasks)
    /\ UNCHANGED <<catalog, schema, data, config, root_ids, relationships, table_levels,
                   deletion_order, tasks, completed_tables, iteration, cur,
                   relIdx, failed, log, dequeued, ncalls, ret, lastOp>>

\* lines 51-56: a task without IDs is skipped
SkipEmpty ==
    /\ pc = "loop"
    /\ has_pending_tasks(tasks)
    /\ iteration < IterCap
    /\ LET task == get_next_task(tasks) IN task = 0 \/ tasks[task].ids = {}
    /\ iteration' = iteration + 1
    /\ UNCHANGED <<catalog, schema, data, config, root_ids, relationships, table_levels,
                   deletion_order, tasks, completed_tables, pc, cur, relIdx,
                   operations, failed, log, dequeued, ncalls, ret, lastOp>>

\* lines 51-62: the next task is taken and marked PROCESSING
Dequeue ==
    /\ pc = "loop"
    /\ has_pending_tasks(tasks)
    /\ iteration < IterCap
    /\ LET task == get_next_task(tasks) IN
        /\ task # 0
        /\ tasks[task].ids # {}
        /\ tasks' = mark_processing(tasks, tasks[task].table_key)
        /\ cur' = tasks[task].table_key
        /\ dequeued' = [k \in DOMAIN dequeued \cup {tasks[task].table_key} |->
                          IF k # tasks[task].table_key THEN dequeued[k]
                          ELSE IF k \in DOMAIN dequeued
                               THEN Append(dequeued[k], tasks[task].ids)
                               ELSE <<tasks[task].ids>>]
        \* the table, IDs and level of the task as get_next_task returned it
        /\ ret' = [table_key |-> tasks[task].table_key, ids |-> tasks[task].ids,
                   level |-> tasks[task].level]
    /\ iteration' = iteration + 1
    /\ relIdx' = 1
    /\ pc' = "process"
    /\ UNCHANGED <<catalog, schema, data, config, root_ids, relationships, table_levels,
                   deletion_order, completed_tables, operations, failed, log,
                   ncalls, lastOp>>

\* lines 70-73: a table without child relationships is completed at once
LeafCompleted ==
    /\ pc = "process"
    /\ get_child_relationships(relationships, cur) = <<>>
    /\ tasks' = mark_completed(tasks, cur)
    /\ completed_tables' = mark_completed_tables(tasks, completed_tables, cur)
    /\ pc' = "loop"
    /\ UNCHANGED <<catalog, schema, data, config, root_ids, relationships, table_levels,
                   deletion_order, iteration, cur, relIdx, operations, failed,
                   log, dequeued, ncalls, ret, lastOp>>

\* mutant of ShouldEnqueue: add_task is called for an empty result too
ShouldEnqueue_Always(child_pk_values) == TRUE

\* line 92, "if child_pk_values:"
ShouldEnqueue(child_pk_values) == child_pk_values # {}

\* lines 76-96: one pass of the for loop over child_relationships.  task.ids
\* and task.level are read from the task object, which add_task may have
\* changed in an earlier pass.
ProcessRelationship ==
    /\ pc = "process"
    /\ relIdx <= Len(get_child_relationships(relationships, cur))
    /\ \E task \in {tasks[get_task(tasks, cur)]},
          relationship \in {get_child_relationships(relationships, cur)[relIdx]} :
        LET fk_table == relationship.parent_table
            referenced_table == relationship.referenced_table
        IN
        \E failRef \in SUBSET (1 .. RefQueries(referenced_table, task.ids)) :
          \E referenced_values \in
                {get_referenced_column_values(
                     referenced_table, task.ids,
                     relationship.referenced_columns, failRef)} :
            \E failChild \in
                  SUBSET (1 .. IF referenced_values = {} THEN 0
                               ELSE ChildQueries(fk_table, referenced_values)) :
              \E child_pk_values \in
                    {IF referenced_values = {} THEN {}
                     ELSE find_child_primary_keys(
                              fk_table, relationship.parent_columns,
                              referenced_values, failChild)} :
                 /\ IF ShouldEnqueue(child_pk_values)
                    THEN /\ tasks' = add_task(tasks, fk_table, child_pk_values,
                                              task.level + 1)
                         /\ log' = log \cup {<<fk_table, child_pk_values,
                                               task.level + 1>>}
                    ELSE UNCHANGED <<tasks, log>>
                 /\ failed' = (failed \/ failRef # {} \/ failChild # {})
    /\ relIdx' = relIdx + 1
    /\ UNCHANGED <<catalog, schema, data, config, root_ids, relationships, table_levels,
                   deletion_order, completed_tables, iteration, pc, cur,
                   operations, dequeued, ncalls, ret, lastOp>>

\* lines 98-107: the task is completed and the iteration bound is checked
MarkCompleted ==
    /\ pc = "process"
    /\ get_child_relationships(relationships, cur) # <<>>
    /\ relIdx > Len(get_child_relationships(relationships, cur))
    /\ tasks' = mark_completed(tasks, cur)
    /\ completed_tables' = mark_completed_tables(tasks, completed_tables, cur)
    /\ IF iteration > MAX_LOOP_ITERATIONS
       THEN /\ pc' = "done"
            /\ operations' = get_all_operations(tasks')
       ELSE /\ pc' = "loop"
            /\ UNCHANGED operations
    /\ UNCHANGED <<catalog, schema, data, config, root_ids, relationships, table_levels,
                   deletion_order, iteration, cur, relIdx, failed, log, dequeued,
                   ncalls, ret, lastOp>>

Next ==
    \/ Start
    \/ LoopExit
    \/ SkipEmpty
    \/ Dequeue
    \/ LeafCompleted
    \/ ProcessRelationship
    \/ MarkCompleted

Spec == Init /\ [][Next]_vars

\* The loop under fair scheduling: the function runs on until it returns.
\* The loop is followed for LiveCap iterations; a run that needs more counts
\* as not terminating.
LiveCap == 4 * MaxRows
Live(A) == A /\ iteration' <= LiveCap

NextLive ==
    \/ Live(Start)
    \/ Live(LoopExit)
    \/ Live(SkipEmpty)
    \/ Live(Dequeue)
    \/ Live(LeafCompleted)
    \/ Live(ProcessRelationship)
    \/ Live(MarkCompleted)

\* the schemas followed under fair scheduling: all but the diamond, whose
\* tables form no other kind of relationship graph than the chain
LiveSchemas == PlanSchemas \ {10}
InitLive == Init /\ schema \in LiveSchemas

FairSpec == InitLive /\ [][NextLive]_vars /\ WF_vars(NextLive)

\* ------------------------------------------- the queue on its own
\* Any sequence of add_task, mark_processing, mark_completed and
\* get_next_task calls on a fresh ProcessingQueue.
QTables == {"R", "A"}
QIdSets == SUBSET {<<1>>, <<2>>}

InitQueue ==
    /\ catalog = <<>>
    /\ schema = 1
    /\ config = [batch_threshold |-> 0, batch_size |-> 1]
    /\ root_ids = {}
    /\ data = NoReferences(Schemas[1])
    /\ relationships = <<>>
    /\ table_levels = <<>>
    /\ deletion_order = <<>>
    /\ tasks = <<>>
    /\ completed_tables = {}
    /\ iteration = 0
    /\ pc = "queue"
    /\ cur = ""
    /\ relIdx = 0
    /\ operations = <<>>
    /\ failed = FALSE
    /\ log = {}
    /\ dequeued = <<>>
    /\ ncalls = 0
    /\ ret = 0
    /\ lastOp = ""

QueueFrame ==
    UNCHANGED <<catalog, schema, data, config, root_ids, relationships, table_levels,
                deletion_order, iteration, pc, cur, relIdx, failed, dequeued>>

\* the operations a get_all_operations call returned, as they read after the
\* queue has become q: a CleanupOperation is built with ids=task.ids, the
\* set object of its task, which add_task updates in place
SharedOperations(ops, q) == [k \in DOMAIN ops |-> q[get_task(q, k)].ids]

QAddTask ==
    /\ pc = "queue"
    /\ ncalls < MaxCalls
    /\ \E k \in QTables, ids \in QIdSets, level \in 0 .. MaxLevel :
        /\ tasks' = add_task(tasks, k, ids, level)
        /\ log' = log \cup {<<k, ids, level>>}
    /\ operations' = SharedOperations(operations, tasks')
    /\ ncalls' = ncalls + 1
    /\ lastOp' = "add_task"
    /\ UNCHANGED <<completed_tables, ret>>
    /\ QueueFrame

QMarkProcessing ==
    /\ pc = "queue"
    /\ ncalls < MaxCalls
    /\ \E k \in QTables : tasks' = mark_processing(tasks, k)
    /\ ncalls' = ncalls + 1
    /\ lastOp' = "mark_processing"
    /\ UNCHANGED <<completed_tables, log, ret, operations>>
    /\ QueueFrame

QMarkCompleted ==
    /\ pc = "queue"
    /\ ncalls < MaxCalls
    /\ \E k \in QTables :
        /\ tasks' = mark_completed(tasks, k)
        /\ completed_tables' = mark_completed_tables(tasks, completed_tables, k)
    /\ ncalls' = ncalls + 1
    /\ lastOp' = "mark_completed"
    /\ UNCHANGED <<log, ret, operations>>
    /\ QueueFrame

QGetNextTask ==
    /\ pc = "queue"
    /\ ncalls < MaxCalls
    /\ ret' = get_next_task(tasks)
    /\ ncalls' = ncalls + 1
    /\ lastOp' = "get_next_task"
    /\ UNCHANGED <<tasks, completed_tables, log, operations>>
    /\ QueueFrame

QGetAllOperations ==
    /\ pc = "queue"
    /\ ncalls < MaxCalls
    /\ operations' = get_all_operations(tasks)
    /\ ncalls' = ncalls + 1
    /\ lastOp' = "get_all_operations"
    /\ UNCHANGED <<tasks, completed_tables, log, ret>>
    /\ QueueFrame

NextQueue ==
    \/ QAddTask
    \/ QMarkProcessing
    \/ QMarkCompleted
    \/ QGetNextTask
    \/ QGetAllOperations

SpecQueue == InitQueue /\ [][NextQueue]_vars

\* ------------------------------------------- discovery of the hierarchy
\* The catalogue of a database: its foreign-key constraints as a list.  The
\* name of a constraint is its position in the list, that is its rank in
\* "ORDER BY foreign_key_name".
HRoot == "R"
HTables == {"R", "A", "B"}
Fk(n, pt, rt) == Rel(n, pt, <<"ref_id">>, rt, <<"id">>)

\* a chain T(n) -> ... -> T1 -> R of max_iterations + 2 dependents, each of
\* which references R as well; the constraints of the chain are named
\* against its direction
ChainDepth == max_iterations + 2
TName == <<"T1", "T2", "T3", "T4", "T5", "T6", "T7", "T8", "T9", "T10",
           "T11", "T12">>
DeepChain ==
    [n \in 1 .. (2 * ChainDepth - 1) |->
        IF n <= ChainDepth THEN Fk(n, TName[n], HRoot)
        ELSE Fk(n, TName[2 * ChainDepth + 1 - n], TName[2 * ChainDepth - n])]

Catalogs ==
    UNION {{[i \in 1 .. n |-> Fk(i, p[i][1], p[i][2])] :
                p \in [1 .. n -> HTables \X HTables]} : n \in 0 .. MaxFks}
    \cup {DeepChain}

\* anchor part of the hierarchy query: the constraints that reference the
\* root table (a row: constraint, hierarchy_level, hierarchy_path)
AnchorRows(cat, root) ==
    {[fk |-> n, hierarchy_level |-> 1,
      hierarchy_path |-> <<root, cat[n].parent_table>>] :
        n \in {m \in DOMAIN cat : cat[m].referenced_table = root}}

\* recursive part: the constraints that reference the referencing table of
\* a row found before and whose own table is not on the path of that row
RECURSIVE HierarchyRows(_, _, _)
HierarchyRows(cat, prev, acc) ==
    IF prev = {} THEN acc
    ELSE LET joined ==
                 {x \in prev \X DOMAIN cat :
                     /\ cat[x[2]].referenced_table = cat[x[1].fk].parent_table
                     /\ cat[x[2]].parent_table \notin Range(x[1].hierarchy_path)}
             next ==
                 {[fk |-> x[2],
                   hierarchy_level |-> x[1].hierarchy_level + 1,
                   hierarchy_path |->
                       Append(x[1].hierarchy_path, cat[x[2]].parent_table)] :
                     x \in joined}
         IN HierarchyRows(cat, next, acc \cup prev)

\* _process_hierarchy_rows: the rows arrive ordered by hierarchy_level and
\* name, and a constraint is kept at its first row
FirstLevel(rows, n) ==
    CHOOSE l \in {r.hierarchy_level : r \in {q \in rows : q.fk = n}} :
        \A r \in rows : r.fk = n => l <= r.hierarchy_level

RowBefore(rows, a, b) ==
    \/ FirstLevel(rows, a) < FirstLevel(rows, b)
    \/ FirstLevel(rows, a) = FirstLevel(rows, b) /\ a < b

RECURSIVE fk_groups(_, _)
fk_groups(rows, names) ==
    IF names = {} THEN <<>>
    ELSE LET n == CHOOSE a \in names :
                     \A b \in names \ {a} : RowBefore(rows, a, b)
         IN <<n>> \o fk_groups(rows, names \ {n})

\* _create_relationships_from_groups: one Relationship per constraint
create_relationships_from_groups(cat, groups) ==
    [i \in DOMAIN groups |-> cat[groups[i]]]

\* _get_or_create_table: a table gets the level of the row that creates it
RECURSIVE InitialLevels(_, _, _, _, _)
InitialLevels(cat, rows, groups, i, lv) ==
    IF i > Len(groups) THEN lv
    ELSE IF cat[groups[i]].referenced_table \notin DOMAIN lv
    THEN InitialLevels(cat, rows, groups, i,
                       [k \in DOMAIN lv \cup {cat[groups[i]].referenced_table} |->
                           IF k = cat[groups[i]].referenced_table
                           THEN FirstLevel(rows, groups[i]) - 1
                           ELSE lv[k]])
    ELSE IF cat[groups[i]].parent_table \notin DOMAIN lv
    THEN InitialLevels(cat, rows, groups, i + 1,
                       [k \in DOMAIN lv \cup {cat[groups[i]].parent_table} |->
                           IF k = cat[groups[i]].parent_table
                           THEN FirstLevel(rows, groups[i])
                           ELSE lv[k]])
    ELSE InitialLevels(cat, rows, groups, i + 1, lv)

\* build_hierarchy: relationships and table_levels of the new Hierarchy
build_hierarchy(cat, root) ==
    LET rows == HierarchyRows(cat, AnchorRows(cat, root), {})
        groups == fk_groups(rows, {r.fk : r \in rows})
    IN [relationships |-> create_relationships_from_groups(cat, groups),
        table_levels |->
            InitialLevels(cat, rows, groups, 1, [k \in {root} |-> 0])]

\* ----------------------------------------- levels and deletion order
\* the for loop of rebuild_table_levels over the relationships from index i
RECURSIVE LevelPass(_, _, _, _)
LevelPass(rels, i, lv, changed) ==
    IF i > Len(rels) THEN [table_levels |-> lv, changed |-> changed]
    ELSE LET parent_key == rels[i].parent_table
             referenced_key == rels[i].referenced_table
         IN IF /\ referenced_key \in DOMAIN lv
               /\ \/ parent_key \notin DOMAIN lv
                  \/ lv[parent_key] < lv[referenced_key] + 1
            THEN LevelPass(rels, i + 1,
                           [k \in DOMAIN lv \cup {parent_key} |->
                               IF k = parent_key THEN lv[referenced_key] + 1
                               ELSE lv[k]],
                           TRUE)
            ELSE LevelPass(rels, i + 1, lv, changed)

\* "while changed and iteration < max_iterations"
RECURSIVE LevelLoop(_, _, _, _)
LevelLoop(rels, lv, changed, passes) ==
    IF changed /\ passes < max_iterations
    THEN LET r == LevelPass(rels, 1, lv, FALSE)
         IN LevelLoop(rels, r.table_levels, r.changed, passes + 1)
    ELSE lv

rebuild_table_levels(root, rels) ==
    LevelLoop(rels, [k \in {root} |-> 0], TRUE, 0)

\* all_tables of get_deletion_order: the root, then the tables of the
\* relationships in order of first appearance
RECURSIVE AllTablesList(_, _, _)
AllTablesList(rels, i, acc) ==
    IF i > Len(rels) THEN acc
    ELSE IF rels[i].parent_table \notin Range(acc)
    THEN AllTablesList(rels, i, Append(acc, rels[i].parent_table))
    ELSE IF rels[i].referenced_table \notin Range(acc)
    THEN AllTablesList(rels, i, Append(acc, rels[i].referenced_table))
    ELSE AllTablesList(rels, i + 1, acc)

\* table_levels.get(table_key, 0)
LevelOrZero(lv, t) == IF t \in DOMAIN lv THEN lv[t] ELSE 0

\* sort(key = level, reverse = True) is stable: an element goes behind the
\* elements of greater or equal level that precede it in the list
InsertDescending(sorted, t, lv) ==
    LET k == Cardinality({i \in DOMAIN sorted :
                             LevelOrZero(lv, sorted[i]) >= LevelOrZero(lv, t)})
    IN SubSeq(sorted, 1, k) \o <<t>> \o SubSeq(sorted, k + 1, Len(sorted))

RECURSIVE SortDescending(_, _, _)
SortDescending(list, n, lv) ==
    IF n = 0 THEN <<>>
    ELSE InsertDescending(SortDescending(list, n - 1, lv), list[n], lv)

\* mutant of get_deletion_order: the last table of the order is left out
get_deletion_order_Short(root, rels, lv) ==
    LET all_tables == AllTablesList(rels, 1, <<root>>)
        order == SortDescending(all_tables, Len(all_tables), lv)
    IN SubSeq(order, 1, Len(order) - 1)

get_deletion_order(root, rels, lv) ==
    LET all_tables == AllTablesList(rels, 1, <<root>>)
    IN SortDescending(all_tables, Len(all_tables), lv)

\* ------------------------------------------- preload_all_foreign_keys
AllTables(root, rels) ==
    {root} \cup {rels[i].parent_table : i \in DOMAIN rels}
           \cup {rels[i].referenced_table : i \in DOMAIN rels}

\* get_foreign_keys: the constraints of a table, "ORDER BY foreign_key_name"
get_foreign_keys(cat, t) == SelectSeq(cat, LAMBDA fk : fk.parent_table = t)

relationship_exists(rels, parent_table, referenced_table, fk_name) ==
    \E i \in DOMAIN rels :
        /\ rels[i].parent_table = parent_table
        /\ rels[i].referenced_table = referenced_table
        /\ rels[i].name = fk_name

\* the relationships that the discovery loop finds for one table
NewRelationships(cat, root, rels, t) ==
    SelectSeq(get_foreign_keys(cat, t),
              LAMBDA fk :
                  /\ fk.referenced_table \in AllTables(root, rels)
                  /\ ~relationship_exists(rels, t, fk.referenced_table, fk.name))

Perms(S) ==
    {f \in [1 .. Cardinality(S) -> S] :
        \A i, j \in DOMAIN f : i # j => f[i] # f[j]}

RECURSIVE additional_relationships(_, _, _, _, _)
additional_relationships(cat, root, rels, order, i) ==
    IF i > Len(order) THEN <<>>
    ELSE NewRelationships(cat, root, rels, order[i])
         \o additional_relationships(cat, root, rels, order, i + 1)

\* ------------------------------------------------ the hierarchy of main
\* main builds the hierarchy of the root table, preloads the foreign keys
\* and asks for the deletion order.
InitH ==
    /\ catalog \in Catalogs
    /\ schema = 1
    /\ config = [batch_threshold |-> 0, batch_size |-> 1]
    /\ root_ids = {}
    /\ data = NoReferences(Schemas[1])
    /\ relationships = <<>>
    /\ table_levels = <<>>
    /\ deletion_order = <<>>
    /\ tasks = <<>>
    /\ completed_tables = {}
    /\ iteration = 0
    /\ pc = "main"
    /\ cur = ""
    /\ relIdx = 0
    /\ operations = <<>>
    /\ failed = FALSE
    /\ log = {}
    /\ dequeued = <<>>
    /\ ncalls = 0
    /\ ret = 0
    /\ lastOp = ""

HierarchyFrame ==
    UNCHANGED <<catalog, schema, data, config, root_ids, tasks,
                completed_tables, iteration, cur, relIdx, operations, failed,
                log, dequeued, ncalls, ret, lastOp>>

\* service.build_hierarchy(root_table); a failing query leaves the
\* hierarchy without relationships
BuildHierarchy ==
    /\ pc = "main"
    /\ \E ok \in BOOLEAN :
        IF ok
        THEN /\ relationships' = build_hierarchy(catalog, HRoot).relationships
             /\ table_levels' = build_hierarchy(catalog, HRoot).table_levels
        ELSE /\ relationships' = <<>>
             /\ table_levels' = [k \in {HRoot} |-> 0]
    /\ pc' = "built"
    /\ UNCHANGED deletion_order
    /\ HierarchyFrame

\* preload_all_foreign_keys: the foreign keys of the tables that hold none
\* are loaded (a failing query leaves a table without foreign keys, so a
\* later call queries it again), the tables are visited in the order of a
\* Python set, the relationships found are appended and the levels are
\* rebuilt.  main calls it once; a second call is followed as well.
PreloadAllForeignKeys ==
    /\ pc \in {"built", "preloaded"}
    /\ LET found == {t \in AllTables(HRoot, relationships) :
                       NewRelationships(catalog, HRoot, relationships, t) # <<>>}
       IN \E loaded \in SUBSET found : \E order \in Perms(loaded) :
            /\ relationships' =
                   relationships \o
                   additional_relationships(catalog, HRoot, relationships,
                                            order, 1)
            /\ table_levels' = rebuild_table_levels(HRoot, relationships')
            /\ failed' = (failed \/ loaded # found)
    /\ pc' = IF pc = "built" THEN "preloaded" ELSE "reloaded"
    /\ UNCHANGED <<deletion_order, catalog, schema, data, config, root_ids,
                   tasks, completed_tables, iteration, cur, relIdx, operations,
                   log, dequeued, ncalls, ret, lastOp>>

\* hierarchy.get_deletion_order()
GetDeletionOrder ==
    /\ pc = "preloaded"
    /\ deletion_order' = get_deletion_order(HRoot, relationships, table_levels)
    /\ pc' = "ordered"
    /\ UNCHANGED <<relationships, table_levels>>
    /\ HierarchyFrame

NextH ==
    \/ BuildHierarchy
    \/ PreloadAllForeignKeys
    \/ GetDeletionOrder

SpecH == InitH /\ [][NextH]_vars

\* ---------------------------------------------------- CleanupOperation
\* mutant of should_use_batching: only a count above the threshold batches
should_use_batching_Above(ids, threshold) ==
    threshold > 0 /\ Cardinality(ids) > threshold

\* CleanupOperation.should_use_batching
should_use_batching(ids, threshold) ==
    threshold > 0 /\ Cardinality(ids) >= threshold

\* _build_multi_column_pk_where_clause: row i of table t satisfies the
\* generated clause; "1=0" when no value yields a condition
build_multi_column_pk_where_clause(t, i, pk_columns, pk_values) ==
    \E v \in pk_values :
        HasConditions(pk_columns, v) /\ ClauseMatches(t, i, pk_columns, v)

\* row i of table t satisfies the WHERE clause of a DELETE over the IDs
DeleteMatches(t, i, ids) ==
    IF Len(CurSchema.pk[t]) = 1
    THEN InList(ColValue(CurSchema, data, t, i, CurSchema.pk[t][1]),
                {v[1] : v \in ids})
    ELSE build_multi_column_pk_where_clause(t, i, CurSchema.pk[t], ids)

\* generate_delete_sql: the ID set of the one DELETE statement; "" (no
\* statement) without IDs or without a primary key
generate_delete_sql(t, ids) ==
    IF ids = {} \/ CurSchema.pk[t] = <<>> THEN <<>> ELSE <<ids>>

\* mutant of generate_batched_delete_sql: the batches overlap by one ID
generate_batched_delete_sql_Overlap(t, ids, batch_size) ==
    IF ids = {} \/ CurSchema.pk[t] = <<>> \/ batch_size <= 0 THEN <<>>
    ELSE [k \in 1 .. NumBatches(Cardinality(ids), batch_size) |->
             Batch(ListOf(ids), k, batch_size)
             \cup Batch(ListOf(ids), k + 1, 1)]

\* generate_batched_delete_sql: the ID sets of the DELETE statements
generate_batched_delete_sql(t, ids, batch_size) ==
    IF ids = {} \/ CurSchema.pk[t] = <<>> \/ batch_size <= 0 THEN <<>>
    ELSE [k \in 1 .. NumBatches(Cardinality(ids), batch_size) |->
             Batch(ListOf(ids), k, batch_size)]

\* generate_cleanup_script, the statements written for one table
TableDeletes(t, ids) ==
    IF should_use_batching(ids, config.batch_threshold)
    THEN generate_batched_delete_sql(t, ids, config.batch_size)
    ELSE generate_delete_sql(t, ids)

\* ------------------------------------------------- the lookups on their own
\* get_referenced_column_values and find_child_primary_keys are called with
\* any ID set of the referenced table and any set of referenced values, under
\* any batching configuration.
LookupSchemas == {7, 8, 9}
LookupConfigs ==
    [batch_threshold : 0 .. MaxRows, batch_size : 1 .. MaxRows]

\* the ID sets a task of table t can hold: keys of rows; fetch_ids keeps only
\* the first column of the rows of the root table
IdInputs(t) ==
    {RowTuple(CurSchema, data, t, i, CurSchema.pk[t]) : i \in RowIds}
    \cup (IF t = CurSchema.root
          THEN {<<ColValue(CurSchema, data, t, i, CurSchema.pk[t][1])>> :
                   i \in RowIds}
          ELSE {})

\* the values of the referenced columns of a relationship
ValueInputs(rel) ==
    {RowTuple(CurSchema, data, rel.referenced_table, i, rel.referenced_columns) :
        i \in RowIds}

InitLookup ==
    /\ catalog = <<>>
    /\ schema \in LookupSchemas
    /\ config \in LookupConfigs
    /\ root_ids = {}
    /\ data \in Databases(Schemas[schema])
    /\ relationships = Schemas[schema].rels
    /\ table_levels = <<>>
    /\ deletion_order = <<>>
    /\ tasks = <<>>
    /\ completed_tables = {}
    /\ iteration = 0
    /\ pc = "lookup"
    /\ cur = ""
    /\ relIdx = 0
    /\ operations = <<>>
    /\ failed = FALSE
    /\ log = {}
    /\ dequeued = <<>>
    /\ ncalls = 0
    /\ ret = {}
    /\ lastOp = ""

LookupFrame ==
    UNCHANGED <<catalog, schema, data, config, relationships, table_levels,
                deletion_order, tasks, completed_tables, iteration,
                operations, log, dequeued>>

\* one call of get_referenced_column_values: root_ids holds the parent IDs,
\* ret the values returned, ncalls the number of queries issued
LookupReferencedValues ==
    /\ pc = "lookup"
    /\ \E j \in DOMAIN relationships :
       \E ids \in SUBSET IdInputs(relationships[j].referenced_table) :
       \E fail \in SUBSET (1 .. RefQueries(relationships[j].referenced_table, ids)) :
        /\ ret' = get_referenced_column_values(
                      relationships[j].referenced_table, ids,
                      relationships[j].referenced_columns, fail)
        /\ ncalls' = RefQueries(relationships[j].referenced_table, ids)
        /\ root_ids' = ids
        /\ relIdx' = j
        /\ cur' = relationships[j].referenced_table
        /\ failed' = (fail # {})
    /\ lastOp' = "referenced"
    /\ pc' = "returned"
    /\ LookupFrame

\* one call of find_child_primary_keys: root_ids holds the referenced values,
\* ret the child keys returned, ncalls the number of queries issued
LookupChildPrimaryKeys ==
    /\ pc = "lookup"
    /\ \E j \in DOMAIN relationships :
       \E vals \in SUBSET ValueInputs(relationships[j]) :
       \E fail \in SUBSET (1 .. ChildQueries(relationships[j].parent_table, vals)) :
        /\ ret' = find_child_primary_keys(
                      relationships[j].parent_table,
                      relationships[j].parent_columns, vals, fail)
        /\ ncalls' = ChildQueries(relationships[j].parent_table, vals)
        /\ root_ids' = vals
        /\ relIdx' = j
        /\ cur' = relationships[j].parent_table
        /\ failed' = (fail # {})
    /\ lastOp' = "children"
    /\ pc' = "returned"
    /\ LookupFrame

\* generate_cleanup_script for one table with a non-empty operation:
\* root_ids holds the IDs, ret the ID sets of the DELETE statements, ncalls
\* their number
ScriptTableDeletes ==
    /\ pc = "lookup"
    /\ \E t \in Tables(CurSchema) :
       \E ids \in (SUBSET IdInputs(t)) \ {{}} :
        /\ ret' = TableDeletes(t, ids)
        /\ ncalls' = Len(TableDeletes(t, ids))
        /\ root_ids' = ids
        /\ cur' = t
    /\ relIdx' = 0
    /\ failed' = FALSE
    /\ lastOp' = "delete"
    /\ pc' = "returned"
    /\ LookupFrame

NextLookup ==
    \/ LookupReferencedValues
    \/ LookupChildPrimaryKeys
    \/ ScriptTableDeletes

SpecLookup == InitLookup /\ [][NextLookup]_vars

\* ------------------------------------- generate_batched_delete_sql on its own
\* one call of generate_batched_delete_sql(batch_size) with any batch size,
\* none and a negative one included (CleanupConfig does not check it):
\* root_ids holds the IDs of the operation, config the batch size passed,
\* ret the ID sets of the statements returned
InitBatched ==
    /\ catalog = <<>>
    /\ schema \in LookupSchemas
    /\ config \in LookupConfigs
    /\ root_ids = {}
    /\ data \in Databases(Schemas[schema])
    /\ relationships = Schemas[schema].rels
    /\ table_levels = <<>>
    /\ deletion_order = <<>>
    /\ tasks = <<>>
    /\ completed_tables = {}
    /\ iteration = 0
    /\ pc = "operation"
    /\ cur = ""
    /\ relIdx = 0
    /\ operations = <<>>
    /\ failed = FALSE
    /\ log = {}
    /\ dequeued = <<>>
    /\ ncalls = 0
    /\ ret = {}
    /\ lastOp = ""

BatchSizes == -1 .. MaxRows

BatchedDeleteSql ==
    /\ pc = "operation"
    /\ \E t \in Tables(CurSchema), batch_size \in BatchSizes :
       \E ids \in SUBSET IdInputs(t) :
        /\ ret' = generate_batched_delete_sql(t, ids, batch_size)
        /\ ncalls' = Len(generate_batched_delete_sql(t, ids, batch_size))
        /\ config' = [config EXCEPT !.batch_size = batch_size]
        /\ root_ids' = ids
        /\ cur' = t
    /\ relIdx' = 0
    /\ failed' = FALSE
    /\ lastOp' = "batched"
    /\ pc' = "returned"
    /\ UNCHANGED <<catalog, schema, data, relationships, table_levels,
                   deletion_order, tasks, completed_tables, iteration,
                   operations, log, dequeued>>

NextBatched == BatchedDeleteSql

SpecBatched == InitBatched /\ [][NextBatched]_vars

\* ------------------------------------------------------- execute_cleanup
\* One run of execute_cleanup over the operations and the deletion order of
\* a plan.  log is the list of the statements passed to cursor.execute, each
\* with its table and whether it returned (ok) or raised; ret holds the
\* answers of the operator; failed says that an exception left the function.
ExecSchemas == {2, 8}

Statement(stmt, t, ok) == [stmt |-> stmt, table |-> t, ok |-> ok]

\* the operations of a plan: a non-empty ID set for some tables with a key
OperationSets(S) ==
    UNION {[T -> (SUBSET RowIds) \ {{}}] :
              T \in SUBSET {t \in Tables(S) : S.pk[t] # <<>>}}

InitExec ==
    /\ catalog = <<>>
    /\ schema \in ExecSchemas
    /\ config = [batch_threshold |-> 0, batch_size |-> 1]
    /\ root_ids = {}
    /\ data = NoReferences(Schemas[schema])
    /\ relationships = Schemas[schema].rels
    /\ table_levels = <<>>
    /\ deletion_order \in Perms(Tables(Schemas[schema]))
    /\ tasks = <<>>
    /\ completed_tables = {}
    /\ iteration = 0
    /\ pc = "confirm_run"
    /\ cur = ""
    /\ relIdx = 0
    /\ \E rows \in OperationSets(Schemas[schema]) :
        operations = [t \in DOMAIN rows |->
                         {RowTuple(Schemas[schema], data, t, i, Schemas[schema].pk[t]) :
                             i \in rows[t]}]
    /\ failed = FALSE
    /\ log = <<>>
    /\ dequeued = <<>>
    /\ ncalls = 0
    /\ ret = [run |-> "", commit |-> ""]
    /\ lastOp = ""

ExecFrame ==
    UNCHANGED <<catalog, schema, data, config, root_ids, relationships,
                table_levels, deletion_order, tasks, completed_tables,
                iteration, operations, dequeued, ncalls, lastOp>>

Answer(yes) == IF yes THEN "yes" ELSE "no"

\* mutant of AfterExecute: an exception of the statement is swallowed
AfterExecute_Swallow(raises, next) == next

\* a statement inside "try:": an exception leads to the except clause
AfterExecute(raises, next) == IF raises THEN "except" ELSE next

\* mutant of FinalStatement: the transaction is committed whatever the answer
FinalStatement_Commit(yes) == "COMMIT TRANSACTION"

\* the statement that follows the prompt "Commit the transaction?"
FinalStatement(yes) ==
    IF yes THEN "COMMIT TRANSACTION" ELSE "ROLLBACK TRANSACTION"

\* the table at position i of the deletion order has a DELETE statement
HasDelete(i) ==
    /\ deletion_order[i] \in DOMAIN operations
    /\ operations[deletion_order[i]] # {}
    /\ generate_delete_sql(deletion_order[i], operations[deletion_order[i]]) # <<>>

\* Confirm.ask("Are you sure ..."): declined, the function returns
ConfirmRun ==
    /\ pc = "confirm_run"
    /\ \E yes \in BOOLEAN :
        /\ ret' = [ret EXCEPT !.run = Answer(yes)]
        /\ pc' = IF yes THEN "begin" ELSE "done"
    /\ UNCHANGED <<cur, relIdx, failed, log>>
    /\ ExecFrame

\* cursor.execute("BEGIN TRANSACTION")
BeginTransaction ==
    /\ pc = "begin"
    /\ \E raises \in BOOLEAN :
        /\ log' = Append(log, Statement("BEGIN TRANSACTION", "", ~raises))
        /\ pc' = AfterExecute(raises, "delete")
    /\ relIdx' = 1
    /\ UNCHANGED <<cur, failed, ret>>
    /\ ExecFrame

\* a table of the deletion order without operation or statement
SkipTable ==
    /\ pc = "delete"
    /\ relIdx <= Len(deletion_order)
    /\ ~HasDelete(relIdx)
    /\ relIdx' = relIdx + 1
    /\ UNCHANGED <<pc, cur, failed, log, ret>>
    /\ ExecFrame

\* cursor.execute(delete_sql) for the next table of the deletion order
DeleteTable ==
    /\ pc = "delete"
    /\ relIdx <= Len(deletion_order)
    /\ HasDelete(relIdx)
    /\ \E raises \in BOOLEAN :
        /\ log' = Append(log, Statement("DELETE", deletion_order[relIdx], ~raises))
        /\ pc' = AfterExecute(raises, "delete")
    /\ cur' = deletion_order[relIdx]
    /\ relIdx' = relIdx + 1
    /\ UNCHANGED <<failed, ret>>
    /\ ExecFrame

\* Confirm.ask("Commit the transaction?") and the COMMIT or ROLLBACK it
\* selects
CommitOrRollback ==
    /\ pc = "delete"
    /\ relIdx > Len(deletion_order)
    /\ \E yes \in BOOLEAN, raises \in BOOLEAN :
        /\ ret' = [ret EXCEPT !.commit = Answer(yes)]
        /\ log' = Append(log, Statement(FinalStatement(yes), "", ~raises))
        /\ pc' = AfterExecute(raises, "done")
    /\ UNCHANGED <<cur, relIdx, failed>>
    /\ ExecFrame

\* "except Exception": cursor.execute("ROLLBACK TRANSACTION"); an exception
\* of this statement leaves the function
ExceptRollback ==
    /\ pc = "except"
    /\ \E raises \in BOOLEAN :
        /\ log' = Append(log, Statement("ROLLBACK TRANSACTION", "", ~raises))
        /\ failed' = raises
    /\ pc' = "done"
    /\ UNCHANGED <<cur, relIdx, ret>>
    /\ ExecFrame

NextExec ==
    \/ ConfirmRun
    \/ BeginTransaction
    \/ SkipTable
    \/ DeleteTable
    \/ CommitOrRollback
    \/ ExceptRollback

SpecExec == InitExec /\ [][NextExec]_vars

\* ------------------------------------------------------------ the claims
\* the ID set of the task of a table, empty when the table has no task
IdsOf(q, table_key) ==
    IF get_task(q, table_key) = 0 THEN {} ELSE q[get_task(q, table_key)].ids

PrimaryKeyOf(t, i) == RowTuple(CurSchema, data, t, i, CurSchema.pk[t])

\* row c of rel.parent_table references row p of rel.referenced_table
References(rel, c, p) ==
    LET fk == RowTuple(CurSchema, data, rel.parent_table, c, rel.parent_columns)
    IN /\ \A k \in DOMAIN fk : fk[k] # NULL
       /\ fk = RowTuple(CurSchema, data, rel.referenced_table, p,
                        rel.referenced_columns)

\* the ID sets of the queue are closed under relationship rel
ClosedUnder(q, rel) ==
    \A p \in RowIds, c \in RowIds :
        ( /\ PrimaryKeyOf(rel.referenced_table, p) \in IdsOf(q, rel.referenced_table)
          /\ References(rel, c, p) )
        => PrimaryKeyOf(rel.parent_table, c) \in IdsOf(q, rel.parent_table)

AllTablesHaveKey == \A t \in Tables(CurSchema) : CurSchema.pk[t] # <<>>

\* C1: no missed cascades.  When calculate_operations has returned with no
\* task pending, no query failed and every table has a primary key, the
\* final ID sets are closed under every relationship.
C1_NoMissedCascades ==
    (pc = "done" /\ ~has_pending_tasks(tasks) /\ ~failed /\ AllTablesHaveKey)
    => \A j \in DOMAIN relationships : ClosedUnder(tasks, relationships[j])

\* an ID of a task is justified: a root ID, or the key of a row referencing
\* a row whose key is in the ID set of the referenced table
Justified(q, table_key, id) ==
    \/ table_key = CurSchema.root /\ id \in root_ids
    \/ \E j \in DOMAIN relationships, c \in RowIds, p \in RowIds :
          LET rel == relationships[j] IN
          /\ rel.parent_table = table_key
          /\ PrimaryKeyOf(table_key, c) = id
          /\ PrimaryKeyOf(rel.referenced_table, p) \in IdsOf(q, rel.referenced_table)
          /\ References(rel, c, p)

\* C2: never over-deletion.  In every state of a planner run every ID of
\* every task is a root ID or the key of a row that references a row whose
\* key is in the ID set of the referenced table.
C2_NeverOverDeletion ==
    \A i \in DOMAIN tasks : \A id \in tasks[i].ids :
        Justified(tasks, tasks[i].table_key, id)

\* keys passed to add_task so far
AddedKeys == {c[1] : c \in log}

SetMax(S) == CHOOSE x \in S : \A y \in S : y <= x

\* C4: merge invariant of the queue.  After any sequence of queue calls
\* there is exactly one task per table key ever added, its ID set is the
\* union of the ID sets passed for the key, its level the maximum of the
\* levels passed, and there is no other task.
C4_MergeInvariant ==
    /\ \A k \in AddedKeys :
        /\ Cardinality({i \in DOMAIN tasks : tasks[i].table_key = k}) = 1
        /\ IdsOf(tasks, k) = UNION {c[2] : c \in {x \in log : x[1] = k}}
        /\ tasks[get_task(tasks, k)].level = SetMax({c[3] : c \in {x \in log : x[1] = k}})
    /\ \A i \in DOMAIN tasks : tasks[i].table_key \in AddedKeys

\* C4 witness: a task merged from calls with different ID sets and levels
\* that has also been marked completed
C4_Witness ==
    /\ pc = "queue"
    /\ \E c1 \in log, c2 \in log :
        /\ c1[1] = c2[1] /\ c1[3] > c2[3]
        /\ c1[2] # {} /\ c2[2] # {} /\ c1[2] \cap c2[2] = {}
        /\ tasks[get_task(tasks, c1[1])].status = COMPLETED

StatusOf(q, k) == q[get_task(q, k)].status

\* C5: in an add_task call a COMPLETED task becomes PENDING exactly when the
\* call grows its ID set, otherwise ID set and status stay; the status of a
\* PENDING or PROCESSING task is never changed by add_task.
C5_AddTaskReset ==
    [][ (lastOp' = "add_task" /\ ncalls' = ncalls + 1) =>
          \A k \in QTables :
             get_task(tasks, k) # 0 =>
               /\ get_task(tasks', k) # 0
               /\ IdsOf(tasks, k) \subseteq IdsOf(tasks', k)
               /\ StatusOf(tasks, k) = COMPLETED =>
                    /\ (StatusOf(tasks', k) = PENDING) <=> (IdsOf(tasks', k) # IdsOf(tasks, k))
                    /\ StatusOf(tasks', k) \in {PENDING, COMPLETED}
               /\ StatusOf(tasks, k) \in {PENDING, PROCESSING} =>
                    StatusOf(tasks', k) = StatusOf(tasks, k)
      ]_vars

\* C5 witness: a task that was completed is pending again after an add_task
C5_Witness ==
    /\ pc = "queue"
    /\ lastOp = "add_task"
    /\ \E k \in completed_tables : StatusOf(tasks, k) = PENDING

\* C7: get_next_task returns a PENDING task of smallest level, the first
\* such task in queue order; it returns None exactly when has_pending_tasks
\* is false; it changes no task.
C7_GetNextTask ==
    [][ (lastOp' = "get_next_task" /\ ncalls' = ncalls + 1) =>
          /\ tasks' = tasks
          /\ completed_tables' = completed_tables
          /\ (ret' = 0) <=> ~has_pending_tasks(tasks)
          /\ ret' # 0 =>
               /\ ret' \in DOMAIN tasks
               /\ tasks[ret'].status = PENDING
               /\ \A i \in DOMAIN tasks :
                    tasks[i].status = PENDING =>
                       \/ tasks[ret'].level < tasks[i].level
                       \/ tasks[ret'].level = tasks[i].level /\ ret' <= i
      ]_vars

\* C7 witness: get_next_task has chosen between two PENDING tasks of the
\* same level
C7_Witness ==
    /\ pc = "queue"
    /\ lastOp = "get_next_task"
    /\ ret # 0
    /\ \E i \in DOMAIN tasks :
        /\ i # ret
        /\ tasks[i].status = PENDING
        /\ tasks[i].level = tasks[ret].level

HasTask(q, k) == get_task(q, k) # 0

\* C6: per-task state machine of a planner run.  A task is created PENDING
\* and every change of its status is PENDING -> PROCESSING, PROCESSING ->
\* COMPLETED or COMPLETED -> PENDING, the last only in an add_task merge that
\* grows its ID set; only a PENDING task is dequeued, so a COMPLETED task
\* that got no new ID is not processed again.
C6_TaskStateMachine ==
    [][ /\ tasks' # tasks => \A k \in Tables(CurSchema) :
            /\ (~HasTask(tasks, k) /\ HasTask(tasks', k)) => StatusOf(tasks', k) = PENDING
            /\ (HasTask(tasks, k) /\ HasTask(tasks', k)
                   /\ StatusOf(tasks', k) # StatusOf(tasks, k)) =>
                 \/ StatusOf(tasks, k) = PENDING /\ StatusOf(tasks', k) = PROCESSING
                 \/ StatusOf(tasks, k) = PROCESSING /\ StatusOf(tasks', k) = COMPLETED
                 \/ /\ StatusOf(tasks, k) = COMPLETED
                    /\ StatusOf(tasks', k) = PENDING
                    /\ \E c \in log' \ log :
                         /\ c[1] = k
                         /\ ~(c[2] \subseteq IdsOf(tasks, k))
                         /\ IdsOf(tasks', k) = IdsOf(tasks, k) \cup c[2]
            /\ (HasTask(tasks, k) /\ StatusOf(tasks, k) = COMPLETED
                   /\ IdsOf(tasks', k) = IdsOf(tasks, k)) =>
                 StatusOf(tasks', k) = COMPLETED
        /\ (pc = "loop" /\ pc' = "process") => StatusOf(tasks, cur') = PENDING
      ]_vars

\* C6 witness: a planner run in which a task that was already dequeued and
\* completed is PENDING again
C6_Witness ==
    /\ pc = "process"
    /\ \E k \in (DOMAIN dequeued) \cap completed_tables :
        k # cur /\ StatusOf(tasks, k) = PENDING

\* C10: no table is reprocessed with the same ID set.  At every dequeue of
\* a task after its first, its ID set is a strict superset of the ID set at
\* its previous dequeue.
C10_NoReprocessingSameIds ==
    \A k \in DOMAIN dequeued : \A n \in 2 .. Len(dequeued[k]) :
        /\ dequeued[k][n - 1] \subseteq dequeued[k][n]
        /\ dequeued[k][n - 1] # dequeued[k][n]

\* C10 witness: a table has been dequeued a second time
C10_Witness == \E k \in DOMAIN dequeued : Len(dequeued[k]) >= 2

\* C8: termination.  With a non-empty root ID set the loop of
\* calculate_operations eventually exits and the operations are returned.
C8_Termination == [](root_ids # {} => <>(pc = "done"))

\* C8 witness: the function has returned after a table of a cyclic
\* relationship graph was processed twice
C8_Witness ==
    /\ pc = "done"
    /\ root_ids # {}
    /\ \E k \in DOMAIN dequeued : Len(dequeued[k]) >= 2
    /\ \E k \in DOMAIN operations : operations[k] # {}

\* C9: safety bound.  The loop body of calculate_operations is executed at
\* most 1000 times in one run, whichever path the iterations take.
C9_IterationBound == iteration <= MAX_LOOP_ITERATIONS

\* position of a table in a list of tables, 0 when it is not in the list
PositionOf(list, t) ==
    IF t \in Range(list) THEN CHOOSE i \in DOMAIN list : list[i] = t ELSE 0

\* C3: deletion order safety.  After preload_all_foreign_keys the level of
\* the parent_table of every relationship is strictly greater than the
\* level of its referenced_table, and get_deletion_order places the
\* parent_table strictly before the referenced_table.
C3_DeletionOrderSafety ==
    /\ pc \in {"preloaded", "ordered"} =>
        \A i \in DOMAIN relationships :
            /\ relationships[i].parent_table \in DOMAIN table_levels
            /\ relationships[i].referenced_table \in DOMAIN table_levels
            /\ table_levels[relationships[i].parent_table]
                   > table_levels[relationships[i].referenced_table]
    /\ pc = "ordered" =>
        \A i \in DOMAIN relationships :
            /\ PositionOf(deletion_order, relationships[i].parent_table) > 0
            /\ PositionOf(deletion_order, relationships[i].parent_table)
                   < PositionOf(deletion_order, relationships[i].referenced_table)

\* the tables that depend on a table of S through at most n relationships
RECURSIVE Dependents(_, _, _)
Dependents(rels, S, n) ==
    IF n = 0 THEN S
    ELSE Dependents(rels,
                    S \cup {rels[i].parent_table :
                              i \in {j \in DOMAIN rels :
                                        rels[j].referenced_table \in S}},
                    n - 1)

\* no table depends on itself, directly or through other tables
Acyclic(rels) ==
    \A i \in DOMAIN rels :
        rels[i].referenced_table
            \notin Dependents(rels, {rels[i].parent_table}, Len(rels))

\* length of the longest relationship path from the root to a table of an
\* acyclic relationship list
RECURSIVE LongestPath(_, _, _)
LongestPath(rels, root, t) ==
    IF t = root \/ ~\E i \in DOMAIN rels : rels[i].parent_table = t THEN 0
    ELSE 1 + SetMax({LongestPath(rels, root, rels[i].referenced_table) :
                        i \in {j \in DOMAIN rels : rels[j].parent_table = t}})

\* C11: level rebuild.  For an acyclic relationship list, after
\* rebuild_table_levels the root has level 0 and the level of every other
\* table is the length of the longest relationship path from the root to it.
C11_LevelRebuild ==
    (pc \in {"preloaded", "ordered"} /\ Acyclic(relationships)) =>
        /\ HRoot \in DOMAIN table_levels
        /\ table_levels[HRoot] = 0
        /\ \A t \in AllTables(HRoot, relationships) :
            /\ t \in DOMAIN table_levels
            /\ table_levels[t] = LongestPath(relationships, HRoot, t)

\* rank of the first appearance of a table in get_deletion_order's walk: the
\* root, then parent_table and referenced_table of every relationship
FirstAppearance(root, rels, t) ==
    IF t = root THEN 0
    ELSE LET at == {2 * i - 1 : i \in {j \in DOMAIN rels :
                                           rels[j].parent_table = t}}
                   \cup {2 * i : i \in {j \in DOMAIN rels :
                                           rels[j].referenced_table = t}}
         IN CHOOSE a \in at : \A b \in at : a <= b

\* the list holds every table exactly once, by non-increasing level, ties in
\* first-appearance order
SortedByLevel(order, root, rels, lv) ==
    /\ Range(order) = AllTables(root, rels)
    /\ Len(order) = Cardinality(AllTables(root, rels))
    /\ \A i, j \in DOMAIN order : i < j =>
        /\ LevelOrZero(lv, order[i]) >= LevelOrZero(lv, order[j])
        /\ LevelOrZero(lv, order[i]) = LevelOrZero(lv, order[j]) =>
               FirstAppearance(root, rels, order[i])
                   < FirstAppearance(root, rels, order[j])

\* C12: get_deletion_order returns every table exactly once, ordered by
\* non-increasing level with ties in first-appearance order, and the root
\* table is the last element of the list.
C12_DeletionOrder ==
    pc = "ordered" =>
        /\ SortedByLevel(deletion_order, HRoot, relationships, table_levels)
        /\ deletion_order[Len(deletion_order)] = HRoot

ReachedThrough(j) ==
    {c \in RowIds :
        /\ data[<<j, c>>] # NULL
        /\ data[<<j - 2, data[<<j, c>>]>>] # NULL
        /\ <<data[<<j - 2, data[<<j, c>>]>>]>> \in root_ids}

\* C14: diamond deduplication.  In the diamond, when calculate_operations
\* has returned and no query failed, the ID set of C is the union of the C
\* rows reached through A and of those reached through B.
C14_DiamondDeduplication ==
    (schema = 10 /\ pc = "done" /\ ~failed) =>
        IdsOf(tasks, "C") = {<<c>> : c \in ReachedThrough(3) \cup ReachedThrough(4)}

\* C14 witness: a run over the diamond has returned in which add_task was
\* called for C with two different ID sets, one reached through A and one
\* through B
C14_Witness ==
    /\ schema = 10 /\ pc = "done" /\ ~failed
    /\ ReachedThrough(3) # {} /\ ReachedThrough(4) # {}
    /\ Cardinality({c \in log : c[1] = "C"}) >= 2

\* C15: batch/non-batch equivalence.  When no query fails, a lookup returns
\* the same set whether the configuration makes it run in batches or not:
\* the set a single unbatched query returns.
C15_BatchEquivalence ==
    (pc = "returned" /\ ~failed) =>
        /\ lastOp = "referenced" =>
              ret = IF CurSchema.pk[cur] = <<>> THEN {}
                    ELSE execute_referenced_values_query(
                             cur, root_ids,
                             relationships[relIdx].referenced_columns, FALSE)
        /\ lastOp = "children" =>
              ret = find_child_primary_keys_single_query(
                        cur, relationships[relIdx].parent_columns, root_ids,
                        FALSE)

\* C15 witness: a lookup ran in two or more batches, no query failed and it
\* returned values found by different batches
C15_Witness ==
    /\ pc = "returned" /\ ~failed
    /\ lastOp \in {"referenced", "children"}
    /\ UseBatching(Cardinality(root_ids))
    /\ ncalls >= 2
    /\ Cardinality(ret) >= 2

\* number of queries or statements when n values are split into chunks
Chunks(n) == (n + config.batch_size - 1) \div config.batch_size

\* a call of the lookup specification over at least one value, for a table
\* that has a primary key
CountedCall ==
    /\ pc = "returned"
    /\ root_ids # {}
    /\ CurSchema.pk[cur] # <<>>

\* C16 as stated: the values are split into chunks of batch_size exactly
\* when batch_threshold > 0 and their number exceeds batch_threshold;
\* otherwise exactly one query or statement is issued.
C16_Original ==
    CountedCall =>
        ncalls = IF /\ config.batch_threshold > 0
                    /\ Cardinality(root_ids) > config.batch_threshold
                 THEN Chunks(Cardinality(root_ids))
                 ELSE 1

\* C16: batching decision.  A lookup or a table's DELETE over n >= 1 values
\* of a table with a primary key is split into chunks of batch_size exactly
\* when batch_threshold > 0 and n is at least batch_threshold; otherwise
\* exactly one query or statement is issued.
C16_BatchingDecision ==
    CountedCall =>
        ncalls = IF /\ config.batch_threshold > 0
                    /\ Cardinality(root_ids) >= config.batch_threshold
                 THEN Chunks(Cardinality(root_ids))
                 ELSE 1

\* C16 witness: a call over exactly batch_threshold values was split into
\* two or more chunks
C16_Witness ==
    /\ CountedCall
    /\ config.batch_threshold > 0
    /\ Cardinality(root_ids) = config.batch_threshold
    /\ ncalls >= 2

\* ------------------------------------------------------- SQL literals
\* A key value is a string (a list of characters), a number or None; SQL
\* text is a list of characters.
Quote == "'"
Chars == {"a", Quote}
StrVal(chars) == [kind |-> "str", chars |-> chars]
NumVal(n) == [kind |-> "num", n |-> n]
NoneVal == [kind |-> "none"]

KeyValues ==
    {StrVal(c) : c \in UNION {[1 .. n -> Chars] : n \in 0 .. MaxLen}}
    \cup {NumVal(n) : n \in 0 .. MaxNum}
    \cup {NoneVal}

DigitChar == <<"0", "1", "2", "3", "4", "5", "6", "7", "8", "9">>

\* str(n)
RECURSIVE DecimalText(_)
DecimalText(n) ==
    IF n < 10 THEN <<DigitChar[n + 1]>>
    ELSE DecimalText(n \div 10) \o <<DigitChar[(n % 10) + 1]>>

\* val.replace("'", "''")
RECURSIVE DoubleQuotes(_)
DoubleQuotes(chars) ==
    IF chars = <<>> THEN <<>>
    ELSE (IF Head(chars) = Quote THEN <<Quote, Quote>> ELSE <<Head(chars)>>)
         \o DoubleQuotes(Tail(chars))

\* format_id_list_for_sql, one element: f"'{id_val}'", "NULL" or str(id_val)
FormatId(v) ==
    IF v.kind = "str" THEN <<Quote>> \o v.chars \o <<Quote>>
    ELSE IF v.kind = "none" THEN <<"N", "U", "L", "L">>
    ELSE DecimalText(v.n)

\* ", ".join(formatted_ids)
RECURSIVE JoinIds(_)
JoinIds(list) ==
    IF list = <<>> THEN <<>>
    ELSE IF Len(list) = 1 THEN FormatId(list[1])
    ELSE FormatId(list[1]) \o <<",", " ">> \o JoinIds(Tail(list))

format_id_list_for_sql(ids) == JoinIds(ListOf(ids))

\* one condition of a multi-column clause: "[col] IS NULL",
\* "[col] = 'escaped'" or "[col] = val"
FormatCondition(v) ==
    IF v.kind = "none" THEN [op |-> "IS NULL", literal |-> <<>>]
    ELSE IF v.kind = "str"
    THEN [op |-> "=",
          literal |-> <<Quote>> \o DoubleQuotes(v.chars) \o <<Quote>>]
    ELSE [op |-> "=", literal |-> DecimalText(v.n)]

\* ---------------------------------------------- a parser of SQL literals
Failure == [ok |-> FALSE]

\* the quoted string that starts behind the opening quote at position i - 1
RECURSIVE ParseQuoted(_, _, _)
ParseQuoted(s, i, acc) ==
    IF i > Len(s) THEN Failure
    ELSE IF s[i] # Quote THEN ParseQuoted(s, i + 1, Append(acc, s[i]))
    ELSE IF i + 1 <= Len(s) /\ s[i + 1] = Quote
         THEN ParseQuoted(s, i + 2, Append(acc, Quote))
         ELSE [ok |-> TRUE, val |-> StrVal(acc), next |-> i + 1]

IsDigit(c) == \E d \in DOMAIN DigitChar : DigitChar[d] = c
DigitOf(c) == (CHOOSE d \in DOMAIN DigitChar : DigitChar[d] = c) - 1

RECURSIVE ParseNumber(_, _, _)
ParseNumber(s, i, n) ==
    IF i <= Len(s) /\ IsDigit(s[i])
    THEN ParseNumber(s, i + 1, 10 * n + DigitOf(s[i]))
    ELSE [ok |-> TRUE, val |-> NumVal(n), next |-> i]

\* the literal that starts at position i of the text
ParseLiteralAt(s, i) ==
    IF i > Len(s) THEN Failure
    ELSE IF s[i] = Quote THEN ParseQuoted(s, i + 1, <<>>)
    ELSE IF IsDigit(s[i]) THEN ParseNumber(s, i, 0)
    ELSE IF i + 3 <= Len(s) /\ SubSeq(s, i, i + 3) = <<"N", "U", "L", "L">>
         THEN [ok |-> TRUE, val |-> NoneVal, next |-> i + 4]
    ELSE Failure

\* a text that is one literal
ParseLiteral(s) ==
    LET r == ParseLiteralAt(s, 1)
    IN IF r.ok /\ r.next = Len(s) + 1 THEN [ok |-> TRUE, val |-> r.val]
       ELSE Failure

\* the values of a list "lit, lit, ..." from position i on
RECURSIVE ParseListFrom(_, _, _)
ParseListFrom(s, i, acc) ==
    LET r == ParseLiteralAt(s, i)
    IN IF ~r.ok THEN Failure
       ELSE IF r.next = Len(s) + 1
            THEN [ok |-> TRUE, vals |-> acc \cup {r.val}]
       ELSE IF r.next + 1 <= Len(s)
               /\ s[r.next] = "," /\ s[r.next + 1] = " "
            THEN ParseListFrom(s, r.next + 2, acc \cup {r.val})
       ELSE Failure

ParseList(s) ==
    IF s = <<>> THEN [ok |-> TRUE, vals |-> {}] ELSE ParseListFrom(s, 1, {})

\* ------------------------------------------------- literal specification
\* One rendering of key values: root_ids holds the key values, ret the SQL
\* text produced, cur the value of the rendered condition.
IdLists == {ids \in SUBSET KeyValues : Cardinality(ids) <= MaxRows}

InitLiteral ==
    /\ catalog = <<>>
    /\ schema = 1
    /\ config = [batch_threshold |-> 0, batch_size |-> 1]
    /\ root_ids \in IdLists
    /\ data = <<>>
    /\ relationships = <<>>
    /\ table_levels = <<>>
    /\ deletion_order = <<>>
    /\ tasks = <<>>
    /\ completed_tables = {}
    /\ iteration = 0
    /\ pc = "format"
    /\ cur = NoneVal
    /\ relIdx = 0
    /\ operations = <<>>
    /\ failed = FALSE
    /\ log = {}
    /\ dequeued = <<>>
    /\ ncalls = 0
    /\ ret = <<>>
    /\ lastOp = ""

LiteralFrame ==
    UNCHANGED <<catalog, schema, data, config, root_ids, relationships,
                table_levels, deletion_order, tasks, completed_tables,
                iteration, relIdx, operations, failed, log, dequeued, ncalls>>

\* the IN list of a single-column predicate
FormatIdList ==
    /\ pc = "format"
    /\ ret' = format_id_list_for_sql(root_ids)
    /\ lastOp' = "in"
    /\ pc' = "returned"
    /\ UNCHANGED cur
    /\ LiteralFrame

\* one condition of a multi-column predicate
FormatKeyCondition ==
    /\ pc = "format"
    /\ \E v \in root_ids :
        /\ cur' = v
        /\ ret' = FormatCondition(v)
    /\ lastOp' = "condition"
    /\ pc' = "returned"
    /\ LiteralFrame

NextLiteral == FormatIdList \/ FormatKeyCondition

SpecLiteral == InitLiteral /\ [][NextLiteral]_vars

\* C17: SQL literal round-trip: the literal rendered for a key value (a
\* string, also one containing a single quote, a number or null) parses back
\* as a SQL literal to exactly that value, in the IN list of a single-column
\* predicate and in a multi-column clause; null renders as NULL in an IN
\* list and as IS NULL in a multi-column clause.
C17_LiteralRoundTrip ==
    /\ (pc = "returned" /\ lastOp = "in") =>
        /\ ParseList(ret) = [ok |-> TRUE, vals |-> root_ids]
        /\ NoneVal \in root_ids =>
            \E i \in 1 .. Len(ret) - 3 :
                SubSeq(ret, i, i + 3) = <<"N", "U", "L", "L">>
    /\ (pc = "returned" /\ lastOp = "condition") =>
        IF cur = NoneVal THEN ret.op = "IS NULL"
        ELSE /\ ret.op = "="
             /\ ParseLiteral(ret.literal) = [ok |-> TRUE, val |-> cur]

\* C18: multi-column predicates never widen the match.  For a table with a
\* key of two or more columns and any set of key values (the root IDs of
\* fetch_ids included), a row satisfies the WHERE clause generated for a
\* lookup or for a DELETE only if its full key is one of the input keys; an
\* input without conditions matches nothing.
C18_MultiColumnNeverWiden ==
    (pc = "returned" /\ lastOp \in {"referenced", "delete"}
        /\ Len(CurSchema.pk[cur]) >= 2) =>
        \A i \in RowIds :
            /\ (lastOp = "referenced"
                    /\ build_pk_where_clause(cur, i, CurSchema.pk[cur], root_ids))
                => PrimaryKeyOf(cur, i) \in root_ids
            /\ lastOp = "delete" =>
                \A k \in DOMAIN ret :
                    DeleteMatches(cur, i, ret[k]) => PrimaryKeyOf(cur, i) \in ret[k]

\* the positions of the deletion order that have a DELETE statement
DeletePositions == {i \in DOMAIN deletion_order : HasDelete(i)}

\* C19: no partial commit in execute mode.  If BEGIN or a DELETE raises,
\* ROLLBACK TRANSACTION is issued, no later DELETE is executed and COMMIT
\* TRANSACTION is never issued; COMMIT is issued only after every DELETE of
\* the deletion order has executed without exception.
C19_NoPartialCommit ==
    /\ \A i \in DOMAIN log :
        (log[i].stmt \in {"BEGIN TRANSACTION", "DELETE"} /\ ~log[i].ok) =>
            /\ \A j \in DOMAIN log :
                j > i => log[j].stmt = "ROLLBACK TRANSACTION"
            /\ pc = "except" \/ (pc = "done" /\ Len(log) > i)
    /\ \A i \in DOMAIN log :
        log[i].stmt = "COMMIT TRANSACTION" =>
            /\ i = Cardinality(DeletePositions) + 2
            /\ \A p \in DeletePositions :
                \E j \in 2 .. i - 1 :
                    log[j] = Statement("DELETE", deletion_order[p], TRUE)

\* C19 witness: a DELETE succeeded, the next one raised, and the run ended
\* with the ROLLBACK of the except clause
C19_Witness ==
    /\ pc = "done"
    /\ Cardinality(DeletePositions) >= 3
    /\ Len(log) = 4
    /\ log[2].stmt = "DELETE" /\ log[2].ok
    /\ log[3].stmt = "DELETE" /\ ~log[3].ok
    /\ log[4].stmt = "ROLLBACK TRANSACTION"

\* statements COMMIT or ROLLBACK that returned
Successful ==
    {i \in DOMAIN log :
        log[i].stmt \in {"COMMIT TRANSACTION", "ROLLBACK TRANSACTION"} /\ log[i].ok}

\* BEGIN TRANSACTION returned
Started == log # <<>> /\ log[1].ok

\* the gating of the run and of the commit by the operator
Gated ==
    /\ log # <<>> => ret.run = "yes"
    /\ \A i \in DOMAIN log :
        log[i].stmt = "COMMIT TRANSACTION" => ret.commit = "yes"
    /\ ret.commit = "no" =>
        /\ \E i \in DOMAIN log : log[i].stmt = "ROLLBACK TRANSACTION"
        /\ \A i \in DOMAIN log : log[i].stmt # "COMMIT TRANSACTION"

\* C20 as stated: ... every started transaction ends with exactly one
\* successful COMMIT or ROLLBACK.
C20_Original ==
    /\ Gated
    /\ (pc = "done" /\ Started) => Cardinality(Successful) = 1

\* C20: operator gating in execute mode.  No statement is executed unless
\* the operator confirmed the run; COMMIT is issued only if the operator
\* confirmed the commit, and ROLLBACK is issued when the commit is declined;
\* a started transaction has at most one successful COMMIT or ROLLBACK, and
\* ends with exactly one unless the ROLLBACK of the except clause raised.
C20_OperatorGating ==
    /\ Gated
    /\ Cardinality(Successful) <= 1
    /\ (pc = "done" /\ Started /\ ~failed) => Cardinality(Successful) = 1

\* C20 witness: the operator confirmed the run and declined the commit after
\* a DELETE, and the ROLLBACK returned
C20_Witness ==
    /\ pc = "done"
    /\ ret = [run |-> "yes", commit |-> "no"]
    /\ \E i \in DOMAIN log : log[i].stmt = "DELETE" /\ log[i].ok
    /\ log[Len(log)] = Statement("ROLLBACK TRANSACTION", "", TRUE)
    /\ Cardinality(Successful) = 1

\* ------------------------------------------------------------- main
\* A run of main: the metadata of the root table and the hierarchy are
\* read, the root IDs are fetched, the deletion order is computed, the
\* planner runs and the script is generated.  relationships holds the
\* hierarchy that build_hierarchy and preload_all_foreign_keys found, ncalls
\* counts the queries main has issued, ret holds the generated script.
MainSchemas == {1, 2, 5, 9, 11}

\* the queries issued before calculate_operations is called: columns and
\* primary key of the root table, the hierarchy query, columns and primary
\* key of every other table, the foreign keys of every table, fetch_ids
MainQueries(S) ==
    LET n == Cardinality(AllTables(S.root, S.rels))
    IN 2 + 1 + 2 * (n - 1) + n + 1

\* a line of the script
Line(kind, text, table, ids, n) ==
    [kind |-> kind, text |-> text, table |-> table, ids |-> ids, n |-> n]

Comment(text) == Line("comment", text, "", {}, 0)

\* lines 526-538: the header and the BEGIN TRANSACTION
ScriptHeader(cfg) ==
    << Comment("Data Cleanup Script"), Comment("Connection"),
       Comment("Database"), Comment("Generated") >>
    \o (IF cfg.batch_threshold > 0
        THEN << Comment("Batch Processing: Enabled"), Comment("Batch Size"),
                Comment("Batch Threshold") >>
        ELSE << Comment("Batch Processing: Disabled") >>)
    \o << Line("statement", "BEGIN TRANSACTION", "", {}, 0) >>

\* line 560: the batch count announced for a table
batch_count(record_count, batch_size) ==
    (record_count + batch_size - 1) \div batch_size

\* lines 566-572: each batch statement behind its comment
BatchLines(t, delete_statements, bc) ==
    [j \in 1 .. 2 * Len(delete_statements) |->
        IF j % 2 = 1 THEN Line("comment", "Batch", t, {}, bc)
        ELSE Line("statement", "DELETE", t, delete_statements[j \div 2], 0)]

\* lines 547-578: the lines written for one table of the deletion order
TableLines(ops, t, cfg) ==
    IF t \in DOMAIN ops /\ ops[t] # {}
    THEN << Line("comment", "Table", t, {}, 0),
            Line("comment", "Records to delete", t, {}, Cardinality(ops[t])) >>
         \o (IF should_use_batching(ops[t], cfg.batch_threshold)
             THEN << Line("comment", "Using batches", t, {},
                          batch_count(Cardinality(ops[t]), cfg.batch_size)) >>
                  \o BatchLines(t, generate_batched_delete_sql(t, ops[t],
                                                               cfg.batch_size),
                                batch_count(Cardinality(ops[t]), cfg.batch_size))
             ELSE [j \in 1 .. Len(generate_delete_sql(t, ops[t])) |->
                      Line("statement", "DELETE", t,
                           generate_delete_sql(t, ops[t])[j], 0)])
         \o << Line("blank", "", "", {}, 0) >>
    ELSE <<>>

\* mutant of ScriptBody: the tables are written last to first
RECURSIVE ScriptBody_Reversed(_, _, _, _)
ScriptBody_Reversed(ops, order, cfg, i) ==
    IF i > Len(order) THEN <<>>
    ELSE ScriptBody_Reversed(ops, order, cfg, i + 1) \o TableLines(ops, order[i], cfg)

\* line 544: the loop over the deletion order from index i
RECURSIVE ScriptBody(_, _, _, _)
ScriptBody(ops, order, cfg, i) ==
    IF i > Len(order) THEN <<>>
    ELSE TableLines(ops, order[i], cfg) \o ScriptBody(ops, order, cfg, i + 1)

\* lines 580-587: the summary and the commented-out COMMIT and ROLLBACK
ScriptFooter(ops, cfg) ==
    << Line("comment", "Script Summary", "", {}, Cardinality(DOMAIN ops)) >>
    \o (IF \E t \in DOMAIN ops :
               ops[t] # {} /\ should_use_batching(ops[t], cfg.batch_threshold)
        THEN << Comment("tables processed with batching") >>
        ELSE <<>>)
    \o << Comment("COMMIT TRANSACTION"), Comment("ROLLBACK TRANSACTION") >>

generate_cleanup_script(ops, order, cfg) ==
    ScriptHeader(cfg) \o ScriptBody(ops, order, cfg, 1) \o ScriptFooter(ops, cfg)

InitMain ==
    /\ catalog = <<>>
    /\ schema \in MainSchemas
    /\ config \in Configs
    /\ root_ids \in RootIdSets
    /\ data \in IF root_ids = {} THEN {NoReferences(Schemas[schema])}
                ELSE Databases(Schemas[schema])
    /\ relationships = Schemas[schema].rels
    /\ table_levels = <<>>
    /\ deletion_order = <<>>
    /\ tasks = <<>>
    /\ completed_tables = {}
    /\ iteration = 0
    /\ pc = "main"
    /\ cur = ""
    /\ relIdx = 0
    /\ operations = <<>>
    /\ failed = FALSE
    /\ log = {}
    /\ dequeued = <<>>
    /\ ncalls = 0
    /\ ret = NoTask
    /\ lastOp = ""

\* main, lines 53-96: the metadata and the root IDs are read; without root
\* IDs main returns ("No data found"), else the deletion order is computed
\* and calculate_operations is called
MainSetup ==
    /\ pc = "main"
    /\ ncalls' = MainQueries(CurSchema)
    /\ table_levels' = rebuild_table_levels(CurSchema.root, relationships)
    /\ IF root_ids = {}
       THEN /\ pc' = "exit"
            /\ UNCHANGED deletion_order
       ELSE /\ pc' = "start"
            /\ deletion_order' =
                   get_deletion_order(CurSchema.root, relationships, table_levels')
    /\ UNCHANGED <<catalog, schema, data, config, root_ids, relationships, tasks,
                   completed_tables, iteration, cur, relIdx, operations, failed,
                   log, dequeued, ret, lastOp>>

\* main, the except clause: the ValueError of calculate_operations ends the
\* run with "Fatal error"
MainFatal ==
    /\ pc = "raised"
    /\ pc' = "fatal"
    /\ UNCHANGED <<catalog, schema, data, config, root_ids, relationships,
                   table_levels, deletion_order, tasks, completed_tables,
                   iteration, cur, relIdx, operations, failed, log, dequeued,
                   ncalls, ret, lastOp>>

\* main, lines 106-113: the script is generated and written
MainScript ==
    /\ pc = "done"
    /\ ret' = generate_cleanup_script(operations, deletion_order, config)
    /\ pc' = "saved"
    /\ UNCHANGED <<catalog, schema, data, config, root_ids, relationships,
                   table_levels, deletion_order, tasks, completed_tables,
                   iteration, cur, relIdx, operations, failed, log, dequeued,
                   ncalls, lastOp>>

\* main calls the planner with root IDs only, and add_task is called with
\* child IDs only, so the branch of lines 54-56 (a task without IDs) is not
\* taken in a run of main
NextMain ==
    \/ MainSetup
    \/ Start
    \/ LoopExit
    \/ Dequeue
    \/ LeafCompleted
    \/ ProcessRelationship
    \/ MarkCompleted
    \/ MainFatal
    \/ MainScript

SpecMain == InitMain /\ [][NextMain]_vars

\* C21: when the root table has no primary key, the run of main aborts with
\* a fatal error before any query is issued, and no operations, script or
\* DELETE are produced: main never ends in another way, and at the abort no
\* query has been issued, no task queued, no operation and no script made.
C21_ConfigurationError ==
    CurSchema.pk[CurSchema.root] = <<>> =>
        /\ pc \notin {"exit", "done", "saved"}
        /\ pc \in {"raised", "fatal"} =>
               /\ ncalls = 0
               /\ tasks = <<>>
               /\ iteration = 0
               /\ operations = <<>>
               /\ ret = NoTask

\* what the code keeps: calculate_operations raises before it queues a task
\* or looks anything up, and main makes no operations and no script
C21_NoPlannerWork ==
    (CurSchema.pk[CurSchema.root] = <<>> /\ pc # "main") =>
        /\ pc \in {"exit", "start", "raised", "fatal"}
        /\ tasks = <<>> /\ log = {} /\ iteration = 0
        /\ operations = <<>> /\ ret = NoTask

\* each lookup of the relationship issues one query (no batching)
SingleQueries(rel) ==
    LET ids == tasks[get_task(tasks, cur)].ids
    IN /\ ~UseBatching(Cardinality(ids))
       /\ ~UseBatching(Cardinality(get_referenced_column_values(
                           rel.referenced_table, ids, rel.referenced_columns, {})))

RelationshipsFor(fk) ==
    {i \in DOMAIN relationships :
        /\ relationships[i].parent_table = fk.parent_table
        /\ relationships[i].referenced_table = fk.referenced_table
        /\ relationships[i].name = fk.name}

\* every foreign key between two hierarchy tables has exactly one relationship
Augmented ==
    \A n \in DOMAIN catalog :
        ({catalog[n].parent_table, catalog[n].referenced_table}
            \subseteq AllTables(HRoot, relationships))
        => Cardinality(RelationshipsFor(catalog[n])) = 1

\* a call of preload_all_foreign_keys keeps the relationships it found, in
\* their order
AppendOnly ==
    /\ Len(relationships') >= Len(relationships)
    /\ SubSeq(relationships', 1, Len(relationships)) = relationships

\* C23: relationship augmentation is append-only, complete and idempotent:
\* a call keeps every relationship unchanged and in order, after the first
\* call every foreign key between hierarchy tables has exactly one
\* relationship, and a second call appends nothing.
C23_Augmentation ==
    /\ [][(pc \in {"built", "preloaded"}) => AppendOnly]_vars
    /\ [](pc = "preloaded" => Augmented)
    /\ [][pc = "preloaded" => relationships' = relationships]_vars

\* the same when no foreign-key query has raised
C23_AugmentationNoFailure ==
    /\ [][(pc \in {"built", "preloaded"}) => AppendOnly]_vars
    /\ [](pc \in {"preloaded", "reloaded"} /\ ~failed => Augmented)
    /\ [][pc = "preloaded" /\ ~failed => relationships' = relationships]_vars

\* positions of the script lines that are statements with the given text
StatementLines(script, text) ==
    {i \in DOMAIN script : script[i].kind = "statement" /\ script[i].text = text}

\* positions of the given tables in the deletion order
OrderIndex(t) == {i \in DOMAIN deletion_order : deletion_order[i] = t}

\* C24: script ordering.  The generated script has exactly one BEGIN
\* TRANSACTION, before every DELETE; DELETE statements are written only for
\* tables with a non-empty ID set, table after table in the order of the
\* deletion-order list; COMMIT and ROLLBACK appear only as comments, after
\* the last DELETE.
C24_ScriptOrdering ==
    pc = "saved" =>
        LET deletes == StatementLines(ret, "DELETE") IN
        /\ Cardinality(StatementLines(ret, "BEGIN TRANSACTION")) = 1
        /\ \A b \in StatementLines(ret, "BEGIN TRANSACTION"), i \in deletes : b < i
        /\ \A i \in deletes :
              /\ ret[i].table \in DOMAIN operations
              /\ operations[ret[i].table] # {}
              /\ ret[i].ids # {}
              /\ ret[i].ids \subseteq operations[ret[i].table]
        /\ \A i, j \in deletes :
              i < j => \A a \in OrderIndex(ret[i].table),
                          b \in OrderIndex(ret[j].table) : a <= b
        /\ \A i \in deletes : OrderIndex(ret[i].table) # {}
        /\ StatementLines(ret, "COMMIT TRANSACTION") = {}
        /\ StatementLines(ret, "ROLLBACK TRANSACTION") = {}
        /\ \A c \in DOMAIN ret :
              ret[c].text \in {"COMMIT TRANSACTION", "ROLLBACK TRANSACTION"}
              => /\ ret[c].kind = "comment"
                 /\ \A i \in deletes : i < c
        /\ \E c, r \in DOMAIN ret :
              /\ ret[c].text = "COMMIT TRANSACTION"
              /\ ret[r].text = "ROLLBACK TRANSACTION"

\* C24 witness: a script with the DELETEs of three tables, one of them in
\* two batches
C24_Witness ==
    /\ pc = "saved"
    /\ Cardinality({ret[i].table : i \in StatementLines(ret, "DELETE")}) = 3
    /\ \E i, j \in StatementLines(ret, "DELETE") :
          i # j /\ ret[i].table = ret[j].table

\* C25: operations snapshot.  get_all_operations returns one operation for
\* exactly the tasks with a non-empty ID set, whatever their status, with
\* the IDs of the task; and no later add_task changes the ID set of an
\* operation that was returned.
C25_OperationsSnapshot ==
    /\ [](lastOp = "get_all_operations" =>
            /\ DOMAIN operations =
                   {tasks[i].table_key : i \in {j \in DOMAIN tasks : tasks[j].ids # {}}}
            /\ \A k \in DOMAIN operations : operations[k] = IdsOf(tasks, k))
    /\ [][lastOp' = "add_task" => operations' = operations]_vars

\* what get_all_operations returns, at its return
C25_Returned ==
    lastOp = "get_all_operations" =>
        /\ DOMAIN operations =
               {tasks[i].table_key : i \in {j \in DOMAIN tasks : tasks[j].ids # {}}}
        /\ \A k \in DOMAIN operations : operations[k] = IdsOf(tasks, k)

\* C26: breadth-first order.  The level of a dequeued task is not below the
\* level of the task dequeued before it, and at every moment no PENDING task
\* has a level below the level the most recently dequeued task had when it
\* was dequeued.
C26_BreadthFirst ==
    /\ [][(pc = "loop" /\ pc' = "process" /\ DOMAIN dequeued # {})
              => ret'.level >= ret.level]_vars
    /\ [](DOMAIN dequeued # {} =>
            \A i \in DOMAIN tasks :
                tasks[i].status = PENDING => tasks[i].level >= ret.level)

\* C26 witness: a table is dequeued for the second time, at a deeper level
\* than the table dequeued before it
C26_Witness ==
    /\ pc = "process"
    /\ Len(dequeued[cur]) >= 2
    /\ ret.level >= 2

\* ceil(n / d) for d >= 1: the least k with k * d >= n
Ceil(n, d) == CHOOSE k \in 0 .. n : k * d >= n /\ \A m \in 0 .. n : m * d >= n => k <= m

\* C27: batched DELETEs partition the ID set.  For an operation with IDs, a
\* primary key and a batch size of at least 1, generate_batched_delete_sql
\* returns ceil(n / batch_size) statements of at most batch_size IDs each,
\* every ID of the operation in exactly one of them, as many as the batch
\* count the script announces; for a batch size below 1 it returns none.
C27_BatchedDeletesPartition ==
    lastOp = "batched" =>
        LET n == Cardinality(root_ids) IN
        /\ (n >= 1 /\ CurSchema.pk[cur] # <<>> /\ config.batch_size >= 1) =>
              /\ Len(ret) = Ceil(n, config.batch_size)
              /\ \A k \in DOMAIN ret :
                    /\ ret[k] # {}
                    /\ Cardinality(ret[k]) <= config.batch_size
              /\ \A id \in root_ids :
                    Cardinality({k \in DOMAIN ret : id \in ret[k]}) = 1
              /\ \A k \in DOMAIN ret : ret[k] \subseteq root_ids
              /\ Len(ret) = batch_count(n, config.batch_size)
        /\ config.batch_size <= 0 => ret = <<>>

\* C27 witness: an operation whose IDs do not fill the last batch
C27_Witness ==
    /\ lastOp = "batched"
    /\ Len(ret) >= 2
    /\ Cardinality(ret[Len(ret)]) < config.batch_size

\* C28: stable ID set while processing.  Between the dequeue of a task and
\* its mark_completed the ID set of the task is the one it had when it was
\* dequeued, so every child relationship is looked up against that set.
C28_StableIdsWhileProcessing ==
    pc = "process" => tasks[get_task(tasks, cur)].ids = ret.ids

\* C29: completed-set consistency.  A table key is in completed_tables
\* exactly when the task of that key has status COMPLETED, so the completed
\* count of the queue summary is the number of COMPLETED tasks.
C29_CompletedSetConsistency ==
    /\ \A i \in DOMAIN tasks :
          (tasks[i].table_key \in completed_tables) <=> (tasks[i].status = COMPLETED)
    /\ \A k \in completed_tables : get_task(tasks, k) # 0
    /\ Cardinality(completed_tables) =
           Cardinality({i \in DOMAIN tasks : tasks[i].status = COMPLETED})

\* the DELETE lines of the script for table t
DeleteLines(t) ==
    {i \in StatementLines(ret, "DELETE") : ret[i].table = t}

====
